---- MODULE Spec2Model ----
(***************************************************************************)
(* Model of the kronilo worker: POST /api/translate (src/unnamed/part_010) *)
(* with its quota tracker (src/src/rateLimit.ts, lines 20-174) and its     *)
(* input/output helpers (src/src/utils.ts).                                *)
(*                                                                         *)
(* Time is in milliseconds, as Date.now() gives it.  A string is a        *)
(* sequence of characters; a character is a one-character TLA+ string,     *)
(* except the control characters, written "NUL", "BEL" and "DEL", and the  *)
(* double quote and the backquote, written "QUOTE" and "BQUOTE".           *)
(***************************************************************************)
EXTENDS Integers, Sequences, FiniteSets, TLC

\* ------------------------------------------------------------ constants

RATE_LIMIT_MAX == 2
RATE_LIMIT_WINDOW == 24 * 60 * 60 * 1000
DAILY_API_LIMIT == 20
BURST_WINDOW_MS == 60 * 1000
BURST_LIMIT == 2
WRITE_DEBOUNCE_MS == 2000

\* new Date().toDateString(): one value per calendar day
DayMs == 24 * 60 * 60 * 1000
ToDateString(t) == t \div DayMs

\* ------------------------------------------------------------ bounds

\* how many times the clock advances in one behaviour
MaxTicks == 2
\* how many requests are received in one behaviour of SpecQuota
MaxRequests == 4
\* how many requests are received in one behaviour of SpecTranslate
MaxTranslations == 3
\* how many requests are received in one behaviour of SpecRace
MaxRaces == 4
\* how many requests are received in one behaviour of SpecFaulty
MaxFaulty == 3
\* how many requests are received in one behaviour of SpecCallers
MaxCallerRequests == 3
\* the longest text of SpecInput
MaxTextLen == 5
\* how many requests are received in one behaviour of SpecRecords
MaxRecordRequests == 3
\* how many requests are received in one behaviour of SpecLive
MaxLive == 3

\* the clock's first value: the last millisecond of the second day of the epoch
StartTime == 2 * DayMs - 1
\* the steps of the clock: they add up to the debounce interval and one more,
\* and to the window and one less
Deltas == {1, WRITE_DEBOUNCE_MS, RATE_LIMIT_WINDOW - 1}

\* ------------------------------------------------------------ strings

\* /\s/ : the white space characters of the model's alphabet
IsSpace(c) == c \in {" ", "\t", "\n", "\r"}

\* c >= " " && c !== "\x7F"   (sanitizeInput's filter)
IsPrintable(c) == c \notin {"NUL", "BEL", "\t", "\n", "\r", "DEL"}

\* the characters the handler strips: < > ' and the double quote ("QUOTE") and
\* the backquote ("BQUOTE")
IsMarkup(c) == c \in {"<", ">", "QUOTE", "'", "BQUOTE"}

NotMarkup(c) == ~IsMarkup(c)

RECURSIVE TrimStart(_)
TrimStart(s) ==
  IF s # <<>> /\ IsSpace(Head(s)) THEN TrimStart(Tail(s)) ELSE s

RECURSIVE TrimEnd(_)
TrimEnd(s) ==
  IF s # <<>> /\ IsSpace(s[Len(s)]) THEN TrimEnd(SubSeq(s, 1, Len(s) - 1)) ELSE s

\* String.prototype.trim
Trim(s) == TrimEnd(TrimStart(s))

UpperLetters ==
  <<"A", "B", "C", "D", "E", "F", "G", "H", "I", "J", "K", "L", "M", "N",
     "O", "P", "Q", "R", "S", "T", "U", "V", "W", "X", "Y", "Z">>

LowerLetters ==
  <<"a", "b", "c", "d", "e", "f", "g", "h", "i", "j", "k", "l", "m", "n",
     "o", "p", "q", "r", "s", "t", "u", "v", "w", "x", "y", "z">>

LowerChar(c) ==
  IF \E i \in 1..26 : UpperLetters[i] = c
  THEN LowerLetters[CHOOSE i \in 1..26 : UpperLetters[i] = c]
  ELSE c

\* String.prototype.toLowerCase
ToLowerCase(s) == [i \in 1..Len(s) |-> LowerChar(s[i])]

NotDropped(c) == c # "DROPPED"

\* .replace(/\s+/g, " ") : every maximal run of white space becomes one space
\* (the first character of a run becomes the space, the others are dropped)
CollapseSpace(s) ==
  SelectSeq([i \in 1..Len(s) |->
               IF ~IsSpace(s[i]) THEN s[i]
               ELSE IF i > 1 /\ IsSpace(s[i - 1]) THEN "DROPPED" ELSE " "],
            NotDropped)

sanitizeInput(input) == SelectSeq(input, IsPrintable)

processInput(input) == sanitizeInput(CollapseSpace(ToLowerCase(Trim(input))))

\* (mutant) the normalization without the handler's own collapsing of white space
TrimmedInputOnce(input) ==
  Trim(SelectSeq(processInput(input), NotMarkup))

\* the handler's trimmedInput
TrimmedInput(input) ==
  Trim(CollapseSpace(SelectSeq(processInput(input), NotMarkup)))

\* s.includes(sub)
Includes(s, sub) ==
  \E i \in 1..(Len(s) - Len(sub) + 1) : SubSeq(s, i, i + Len(sub) - 1) = sub

\* s matches /^sub/
StartsWith(s, sub) == Len(s) >= Len(sub) /\ SubSeq(s, 1, Len(sub)) = sub

\* ------------------------------------------------------------ output validator

IsDigit(c) == c \in {"0", "1", "2", "3", "4", "5", "6", "7", "8", "9"}

\* s.split(c) for a single character c
RECURSIVE SplitOn(_, _)
SplitOn(s, c) ==
  IF \A i \in 1..Len(s) : s[i] # c THEN <<s>>
  ELSE LET k == CHOOSE i \in 1..Len(s) : s[i] = c /\ \A j \in 1..(i - 1) : s[j] # c
       IN  <<SubSeq(s, 1, k - 1)>> \o SplitOn(SubSeq(s, k + 1, Len(s)), c)

\* s.split(/\s+/)
SplitSpace(s) == SplitOn(CollapseSpace(s), " ")

\* /^[0-5]?\d$/
MinuteNum(s) ==
  \/ Len(s) = 1 /\ IsDigit(s[1])
  \/ Len(s) = 2 /\ s[1] \in {"0", "1", "2", "3", "4", "5"} /\ IsDigit(s[2])

\* /^[1-5]?\d$/
MinuteStep(s) ==
  \/ Len(s) = 1 /\ IsDigit(s[1])
  \/ Len(s) = 2 /\ s[1] \in {"1", "2", "3", "4", "5"} /\ IsDigit(s[2])

\* /^([01]?\d|2[0-3])$/
HourNum(s) ==
  \/ Len(s) = 1 /\ IsDigit(s[1])
  \/ Len(s) = 2 /\ s[1] \in {"0", "1"} /\ IsDigit(s[2])
  \/ Len(s) = 2 /\ s[1] = "2" /\ s[2] \in {"0", "1", "2", "3"}

\* /^([12]?\d|3[01])$/
DayNum(s) ==
  \/ Len(s) = 1 /\ IsDigit(s[1])
  \/ Len(s) = 2 /\ s[1] \in {"1", "2"} /\ IsDigit(s[2])
  \/ Len(s) = 2 /\ s[1] = "3" /\ s[2] \in {"0", "1"}

\* /^([1-9]|1[0-2])$/
MonthNum(s) ==
  \/ Len(s) = 1 /\ IsDigit(s[1]) /\ s[1] # "0"
  \/ Len(s) = 2 /\ s[1] = "1" /\ s[2] \in {"0", "1", "2"}

\* /^[0-6]$/
DowNum(s) == Len(s) = 1 /\ s[1] \in {"0", "1", "2", "3", "4", "5", "6"}

\* the number pattern of a field
FieldNum(field, s) ==
  CASE field = "minute" -> MinuteNum(s)
    [] field = "hour" -> HourNum(s)
    [] field = "dayOfMonth" -> DayNum(s)
    [] field = "month" -> MonthNum(s)
    [] field = "dayOfWeek" -> DowNum(s)

\* the step pattern of a field: the minute's differs from its number pattern
FieldStep(field, s) ==
  IF field = "minute" THEN MinuteStep(s) ELSE FieldNum(field, s)

\* /^(\*|N(,N)*|N-N|\*\/S|N\/S)$/ for the field's number pattern N and step pattern S
FieldMatches(field, f) ==
  LET list  == SplitOn(f, ",")
      range == SplitOn(f, "-")
      step  == SplitOn(f, "/")
  IN  \/ f = <<"*">>
      \/ \A i \in 1..Len(list) : FieldNum(field, list[i])
      \/ Len(range) = 2 /\ FieldNum(field, range[1]) /\ FieldNum(field, range[2])
      \/ /\ Len(step) = 2
         /\ (step[1] = <<"*">> \/ FieldNum(field, step[1]))
         /\ FieldStep(field, step[2])

\* (mutant) every text passes for a cron expression
isValidCronAny(cron) == TRUE

\* isValidCron: five fields, each matching its pattern
isValidCron(cron) ==
  LET parts == SplitSpace(Trim(cron))
  IN  /\ Len(parts) = 5
      /\ FieldMatches("minute", parts[1])
      /\ FieldMatches("hour", parts[2])
      /\ FieldMatches("dayOfMonth", parts[3])
      /\ FieldMatches("month", parts[4])
      /\ FieldMatches("dayOfWeek", parts[5])

\* the texts the validator looks for and the messages it builds
Words ==
  [ here |-> <<"h", "e", "r", "e">>, the |-> <<"t", "h", "e">>, this |-> <<"t", "h", "i", "s">>, that |-> <<"t", "h", "a", "t">>, it |-> <<"i", "t">>,
    expression |-> <<"e", "x", "p", "r", "e", "s", "s", "i", "o", "n">>,
    cron |-> <<"c", "r", "o", "n">>,
    explanation |-> <<"e", "x", "p", "l", "a", "n", "a", "t", "i", "o", "n">>,
    description |-> <<"d", "e", "s", "c", "r", "i", "p", "t", "i", "o", "n">>,
    means |-> <<"m", "e", "a", "n", "s">>,
    represents |-> <<"r", "e", "p", "r", "e", "s", "e", "n", "t", "s">>,
    timeout |-> <<"t", "i", "m", "e", "o", "u", "t">> ]

MsgEmpty ==
  <<"E", "m", "p", "t", "y", " ", "o", "r", " ", "i", "n", "v", "a", "l",
    "i", "d", " ", "r", "e", "s", "p", "o", "n", "s", "e">>

MsgInvalidPattern ==
  <<"R", "e", "s", "p", "o", "n", "s", "e", " ", "c", "o", "n", "t", "a",
    "i", "n", "s", " ", "i", "n", "v", "a", "l", "i", "d", " ", "p", "a",
    "t", "t", "e", "r", "n", ":", " ">>

MsgInvalidCron ==
  <<"I", "n", "v", "a", "l", "i", "d", " ", "c", "r", "o", "n", " ", "f",
    "o", "r", "m", "a", "t", ":", " ">>

\* validateApiResponse: isValid, and the error message when it is not
validateApiResponse(response) ==
  LET trimmed == Trim(response)
      lower   == ToLowerCase(trimmed)
  IN  IF response = <<>>
      THEN [isValid |-> FALSE, error |-> MsgEmpty]
      ELSE IF \/ \E w \in {"here", "the", "this", "that", "it", "expression", "cron"} :
                   StartsWith(lower, Words[w])
              \/ StartsWith(trimmed, <<"BQUOTE">>)
              \/ \E w \in {"explanation", "description", "means", "represents"} :
                   Includes(lower, Words[w])
              \/ Includes(trimmed, <<"\n">>)
      THEN [isValid |-> FALSE, error |-> MsgInvalidPattern \o trimmed]
      ELSE IF ~isValidCron(trimmed)
      THEN [isValid |-> FALSE, error |-> MsgInvalidCron \o trimmed]
      ELSE [isValid |-> TRUE, error |-> <<>>]

\* ------------------------------------------------------------ validator inputs

Digits == <<"0", "1", "2", "3", "4", "5", "6", "7", "8", "9">>

\* the decimal numeral of a number below 100
NumeralOf(n) ==
  IF n < 10 THEN <<Digits[n + 1]>>
  ELSE <<Digits[(n \div 10) + 1], Digits[(n % 10) + 1]>>

\* five fields with one space between them
JoinFields(f) == f[1] \o <<" ">> \o f[2] \o <<" ">> \o f[3] \o <<" ">> \o f[4] \o <<" ">> \o f[5]

\* the numbers tried in each field: the ends of its legal range and their neighbours
EdgeNumbers == <<{0, 59, 60}, {0, 23, 24}, {0, 1, 31, 32}, {0, 1, 12, 13}, {0, 6, 7}>>

\* candidates of five bare integers
BareCandidates ==
  { JoinFields(<<NumeralOf(mi), NumeralOf(h), NumeralOf(d), NumeralOf(mo), NumeralOf(w)>>) :
      mi \in EdgeNumbers[1], h \in EdgeNumbers[2], d \in EdgeNumbers[3],
      mo \in EdgeNumbers[4], w \in EdgeNumbers[5] }

\* a list, a range and the two steps made of two numbers
FieldForms(a, b) ==
  { NumeralOf(a) \o <<",">> \o NumeralOf(b),
    NumeralOf(a) \o <<"-">> \o NumeralOf(b),
    <<"*", "/">> \o NumeralOf(b),
    NumeralOf(a) \o <<"/">> \o NumeralOf(b) }

\* candidates with a list, a range or a step in one field and * in the others
FormCandidates ==
  UNION { { JoinFields([q \in 1..5 |-> IF q = p THEN f ELSE <<"*">>]) :
              f \in UNION {FieldForms(a, b) : a \in EdgeNumbers[p], b \in EdgeNumbers[p]} } :
          p \in 1..5 }

\* texts around the prose tests: line breaks at the end, in the middle, a carriage
\* return, too few and too many fields, lead-ins, an explanation
ProseTexts ==
  { <<"0", " ", "1", "5", " ", "*", " ", "*", " ", "*">>,
    <<"0", " ", "1", "5", " ", "*", " ", "*", " ", "*", "\n">>,
    <<"\n", "0", " ", "1", "5", " ", "*", " ", "*", " ", "*">>,
    <<"0", " ", "1", "5", "\n", "*", " ", "*", " ", "*">>,
    <<"0", " ", "1", "5", "\r", "*", " ", "*", " ", "*">>,
    <<"0", " ", "1", "5", "\t", "*", " ", " ", "*", " ", "*">>,
    <<"0", " ", "1", "5", " ", "*", " ", "*">>,
    <<"0", " ", "1", "5", " ", "*", " ", "*", " ", "*", " ", "*">>,
    <<"*">>,
    <<>>,
    <<" ">>,
    <<"i", "t", " ", "1", "5", " ", "*", " ", "*", " ", "*">>,
    <<"T", "h", "e", " ", "1", "5", " ", "*", " ", "*", " ", "*">>,
    <<"c", "r", "o", "n", ":", " ", "0", " ", "1", "5", " ", "*", " ", "*", " ", "*">>,
    <<"BQUOTE", "0", " ", "1", "5", " ", "*", " ", "*", " ", "*", "BQUOTE">>,
    <<"0", " ", "1", "5", " ", "*", " ", "*", " ", "m", "e", "a", "n", "s">>,
    <<"i", "n", "v", "a", "l", "i", "d">> }

ValidatorTexts == ProseTexts \cup BareCandidates \cup FormCandidates

\* ------------------------------------------------------------ the program's state

CACHE_VERSION == "v5"
PRIMARY_MODEL == "google/gemini-2.0-flash-exp:free"
BACKUP_MODEL == "mistralai/mistral-7b-instruct:free"
MaxInputLength == 200
BackoffMs == 250

\* the worker processes (isolates) and the requests one can have in flight
Procs == {1, 2}
Slots == {1, 2}

\* the values of the CF-Connecting-IP and x-forwarded-for headers ("" : absent)
CfValues == {"", "198.51.100.7"}
XffValues == {"", "203.0.113.9"}
Callers == (CfValues \cup XffValues \cup {"unknown"}) \ {""}

\* the request bodies' input fields: two that normalize to the same text, one
\* that normalizes to another, one that normalizes to nothing, one too long
PlainInput == <<"3", " ", "P", "M">>
MessyInput == <<" ", "3", "\t", " ", "p", "m", "<", "NUL">>
OtherInput == <<"d", "a", "i", "l", "y">>
BlankInput == <<" ", "\t">>
LongInput == [i \in 1..(MaxInputLength + 1) |-> "a"]
RawInputs == {PlainInput, MessyInput, OtherInput, BlankInput, LongInput}

\* two bodies at the length limit: one of exactly MaxInputLength characters, one
\* longer that normalizes to it
ExactInput == [i \in 1..MaxInputLength |-> "a"]
PaddedInput == <<" ", "<">> \o ExactInput \o <<"NUL", "\t">>
EdgeInputs == {ExactInput, PaddedInput, LongInput, BlankInput}

\* every text of at most MaxTextLen characters over a white space, a white space
\* that is a control character, another control character, a character the handler
\* strips, a capital and a small letter
TextAlphabet == {" ", "\t", "NUL", "<", "A", "a"}
Texts == UNION {[1..n -> TextAlphabet] : n \in 0..MaxTextLen}

\* the handler's trimmedInput of the bodies that are received again and again
TrimmedInputOf == [raw \in RawInputs \cup EdgeInputs |-> TrimmedInput(raw)]

\* the handler's trimmedInput of a body
TrimmedInputFor(raw) ==
  IF raw \in DOMAIN TrimmedInputOf THEN TrimmedInputOf[raw] ELSE TrimmedInput(raw)

NormalizedInputs == {TrimmedInputOf[raw] : raw \in RawInputs}

\* what a model call can do: throw an Error (status: its own enumerable property,
\* 0 when it has none) or return a completion with this content
TimeoutFailure ==
  [message |-> <<"R", "e", "q", "u", "e", "s", "t", " ", "t", "i", "m", "e", "o", "u", "t">>,
   status |-> 0]
ApiFailure ==
  [message |-> <<"4", "2", "9", " ", "T", "o", "o", " ", "M", "a", "n", "y", " ",
                 "R", "e", "q", "u", "e", "s", "t", "s">>,
   status |-> 429]
TransportErrors == {TimeoutFailure, ApiFailure}

\* two contents that hold a cron expression, the prompt's sentinel, and a word
CronContent == <<"0", " ", "1", "5", " ", "*", " ", "*", " ", "*">>
PaddedContent == <<" ", "*", "/", "5", " ", "*", " ", "*", " ", "*", " ", "*", "\n">>
SentinelContent == <<"i", "n", "v", "a", "l", "i", "d">>
WordContent == <<"t", "i", "m", "e", "o", "u", "t">>
Contents == {CronContent, PaddedContent, SentinelContent, WordContent}

\* JSON.stringify of an Error: its own enumerable properties; its message is not
\* one, and is absent (<<>>) from the text
JsonOfError(e) == [message |-> <<>>, status |-> e.status]

NoError == [message |-> <<>>, status |-> 0]
NoUsage == [some |-> FALSE, count |-> 0, date |-> 0, lastWrite |-> 0]
NoEntry == [some |-> FALSE, cron |-> <<>>, model |-> "", input |-> <<>>]
NoResponse == [status |-> 0]

VARIABLES
  clock,             \* Date.now()
  ticks,             \* how many times the clock has advanced
  received,          \* how many requests have been received
  kvDaily,           \* RATE_LIMIT_KV: the value under "daily_usage"
  kvRate,            \* RATE_LIMIT_KV: the timestamps under "rate_<ip>" (<<>> : no value)
  cachedDailyUsage,  \* the module-level cache, one per process
  cache,             \* caches.default: key -> stored response body
  req,               \* the requests in flight: the handler's locals and its position
                     \* (readUser, wroteUser, denial, dailyAtArrival, events: history)
  admitted           \* history: per caller, the timestamps of the admitted requests

vars ==
  <<clock, ticks, received, kvDaily, kvRate, cachedDailyUsage, cache, req, admitted>>

CacheKeys == {<<CACHE_VERSION, n>> : n \in NormalizedInputs}

IdleReq ==
  [ pc |-> "idle", route |-> "", proc |-> 1, hasKey |-> FALSE, raw |-> <<>>,
    cf |-> "", xff |-> "", input |-> <<>>, ip |-> "", now |-> 0, today |-> 0,
    storedDaily |-> NoUsage, storedList |-> <<>>, usageDay |-> 0,
    alias |-> FALSE, usage |-> NoUsage, timestamps |-> <<>>,
    readUser |-> FALSE, wroteUser |-> FALSE, denial |-> "", dailyAtArrival |-> 0,
    events |-> <<>>, attempts |-> 0, timeoutError |-> FALSE,
    lastError |-> NoError, result |-> NoEntry, usedModel |-> "",
    cacheHit |-> FALSE, logged |-> <<>>, resp |-> NoResponse, headers |-> {} ]

\* ------------------------------------------------------------ quota tracker

\* (mutant) the filter with its comparison reversed
RECURSIVE FilterOlder(_, _, _)
FilterOlder(timestamps, now, window) ==
  IF timestamps = <<>> THEN <<>>
  ELSE IF now - Head(timestamps) >= window
       THEN <<Head(timestamps)>> \o FilterOlder(Tail(timestamps), now, window)
       ELSE FilterOlder(Tail(timestamps), now, window)

\* (mutant) the filter with <= for <
RECURSIVE FilterUpTo(_, _, _)
FilterUpTo(timestamps, now, window) ==
  IF timestamps = <<>> THEN <<>>
  ELSE IF now - Head(timestamps) <= window
       THEN <<Head(timestamps)>> \o FilterUpTo(Tail(timestamps), now, window)
       ELSE FilterUpTo(Tail(timestamps), now, window)

\* timestamps.filter((ts) => now - ts < window)
RECURSIVE FilterYounger(_, _, _)
FilterYounger(timestamps, now, window) ==
  IF timestamps = <<>> THEN <<>>
  ELSE IF now - Head(timestamps) < window
       THEN <<Head(timestamps)>> \o FilterYounger(Tail(timestamps), now, window)
       ELSE FilterYounger(Tail(timestamps), now, window)

\* (mutant) the cached object is used whatever its date
CacheIsFreshAnyDate(p, today) == cachedDailyUsage[p].some

\* getDailyUsageInternal, the cached branch: the cache holds today's object
CacheIsFresh(p, today) ==
  cachedDailyUsage[p].some /\ cachedDailyUsage[p].date = today

\* getDailyUsageInternal, the store branch: the object built from the value
\* kv.get gave
LoadDailyUsage(stored, today) ==
  IF stored.some /\ stored.date = today
  THEN [some |-> TRUE, count |-> stored.count, date |-> stored.date,
        lastWrite |-> stored.lastWrite]
  ELSE [some |-> TRUE, count |-> 0, date |-> today, lastWrite |-> 0]

\* history: the day's count the tracker holds, in its cache or else in the store
DailyCount(p, today) ==
  IF CacheIsFresh(p, today) THEN cachedDailyUsage[p].count
  ELSE LoadDailyUsage(kvDaily, today).count

\* the object a request's local dailyUsage refers to: the cached object itself
\* while the module variable still refers to it, else the request's own object
Usage(r) ==
  IF req[r].alias THEN cachedDailyUsage[req[r].proc] ELSE req[r].usage

\* the requests after the module variable of process p is assigned a new object:
\* a local that referred to the old object keeps it, with the value old
Detach(p, old) ==
  [q \in Slots |->
     IF req[q].proc = p /\ req[q].alias
     THEN [req[q] EXCEPT !.alias = FALSE, !.usage = old]
     ELSE req[q]]

\* (mutant) the forwarded-for header before the proxy's
CallerIpForwardedFirst(cf, xff) ==
  IF xff # "" THEN xff ELSE IF cf # "" THEN cf ELSE "unknown"

\* the caller identity: CF-Connecting-IP || x-forwarded-for || "unknown"
CallerIp(cf, xff) == IF cf # "" THEN cf ELSE IF xff # "" THEN xff ELSE "unknown"

\* (mutant) the window test with > for >=
WindowDeniesAbove(timestamps, now) ==
  Len(FilterYounger(timestamps, now, RATE_LIMIT_WINDOW)) > RATE_LIMIT_MAX

\* checkRateLimit's window test on the stored list, pruned
WindowDenies(timestamps, now) ==
  Len(FilterYounger(timestamps, now, RATE_LIMIT_WINDOW)) >= RATE_LIMIT_MAX

\* (mutant) the burst test with a limit one lower
BurstDeniesBelow(timestamps, now) ==
  Len(FilterYounger(FilterYounger(timestamps, now, RATE_LIMIT_WINDOW),
                    now, BURST_WINDOW_MS)) >= BURST_LIMIT - 1

\* checkRateLimit's burst test on the pruned list
BurstDenies(timestamps, now) ==
  Len(FilterYounger(FilterYounger(timestamps, now, RATE_LIMIT_WINDOW),
                    now, BURST_WINDOW_MS)) >= BURST_LIMIT

\* (mutant) the daily test with > for >=
DailyDeniesAbove(usage) == usage.count > DAILY_API_LIMIT

\* checkRateLimit's daily test
DailyDenies(usage) == usage.count >= DAILY_API_LIMIT

\* updateDailyUsage's debounce test
DebounceElapsed(now, usage) == now - usage.lastWrite > WRITE_DEBOUNCE_MS

\* getDailyUsage's result
UsageStats(usage) ==
  [count |-> usage.count, date |-> usage.date,
   remaining |-> DAILY_API_LIMIT - usage.count]

\* ------------------------------------------------------------ translation

\* temperature: attempt > 1 ? 0.1 : 0   (in tenths)
TemperatureTenths(attempt) == IF attempt > 1 THEN 1 ELSE 0

\* history: a call made to a model, with what came of it once it has settled
\* (thrown: create() threw; output: the trimmed content it returned)
CallEvent(model, attempt) ==
  [kind |-> "call", model |-> model, temperature |-> TemperatureTenths(attempt),
   ms |-> 0, outcome |-> "pending", thrown |-> FALSE, output |-> <<>>,
   error |-> NoError]

\* history: the delay(250) before the second attempt
DelayEvent ==
  [kind |-> "delay", model |-> "", temperature |-> 0,
   ms |-> BackoffMs, outcome |-> "", thrown |-> FALSE, output |-> <<>>,
   error |-> NoError]

\* the outcomes of openai.chat.completions.create
Outcomes ==
  {[kind |-> "throw", error |-> e, content |-> <<>>] : e \in TransportErrors}
    \cup {[kind |-> "content", error |-> NoError, content |-> c] : c \in Contents}

\* response.choices?.[0]?.message?.content?.trim() and its validation, for every
\* outcome of the model
OutputOf == [out \in Outcomes |-> Trim(out.content)]
ValidationOf == [out \in Outcomes |-> validateApiResponse(OutputOf[out])]

\* (mutant) makeApiCall without the validation of the output
MakeApiCallUnchecked(model, trimmedInput, out) ==
  IF out.kind = "throw"
  THEN [ok |-> FALSE, thrown |-> TRUE, error |-> out.error, output |-> <<>>,
        result |-> NoEntry]
  ELSE [ok |-> TRUE, thrown |-> FALSE, error |-> NoError, output |-> OutputOf[out],
        result |-> [some |-> TRUE, cron |-> OutputOf[out], model |-> model,
                    input |-> trimmedInput]]

\* makeApiCall's body: the thrown error, or the ApiSuccess it returns
MakeApiCall(model, trimmedInput, out) ==
  LET output     == OutputOf[out]
      validation == ValidationOf[out]
  IN  IF out.kind = "throw"
      THEN [ok |-> FALSE, thrown |-> TRUE, error |-> out.error, output |-> <<>>,
            result |-> NoEntry]
      ELSE IF ~validation.isValid
      THEN [ok |-> FALSE, thrown |-> FALSE,
            error |-> [message |-> validation.error, status |-> 0],
            output |-> output, result |-> NoEntry]
      ELSE [ok |-> TRUE, thrown |-> FALSE, error |-> NoError, output |-> output,
            result |-> [some |-> TRUE, cron |-> output, model |-> model,
                        input |-> trimmedInput]]

\* makeApiCall's catch: err.message.includes("timeout")
IsTimeoutError(err) == Includes(err.message, Words.timeout)

\* (mutant) the primary is never tried again
RetriesPrimaryNever(timeoutError, i) == FALSE

\* (mutant) the primary is tried again after every timeout
RetriesPrimaryAlways(timeoutError, i) == timeoutError

\* the primary loop's test after a failed attempt i: retry, or break
RetriesPrimary(timeoutError, i) == timeoutError /\ i < 2

\* the last event of the log, completed with the call's outcome
Completed(events, call) ==
  [events EXCEPT ![Len(events)] =
     [@ EXCEPT !.outcome = IF call.ok THEN "valid" ELSE "failed",
               !.thrown = call.thrown, !.output = call.output,
               !.error = call.error]]

\* ------------------------------------------------------------ POST /api/translate

InFlight(r) == req[r].pc \notin {"idle", "done"}

\* the headers every c.text of the handler is given, as name and value
securityHeaders ==
  { <<"Content-Type", "application/json">>,
    <<"X-Content-Type-Options", "nosniff">>,
    <<"X-Frame-Options", "DENY">>,
    <<"Strict-Transport-Security", "max-age=63072000; includeSubDomains; preload">>,
    <<"Referrer-Policy", "no-referrer">>,
    <<"Content-Security-Policy",
      "default-src 'none'; frame-ancestors 'none'; base-uri 'none';">> }

\* the header c.json sets by itself
JsonHeaders == { <<"Content-Type", "application/json">> }

\* return c.text(JSON.stringify(response), status, securityHeaders)
Respond(rec, response) ==
  [rec EXCEPT !.pc = "done", !.alias = FALSE, !.resp = response,
              !.headers = securityHeaders]

\* return c.json(response, status)
RespondJson(rec, response) ==
  [rec EXCEPT !.pc = "done", !.alias = FALSE, !.resp = response,
              !.headers = JsonHeaders]

\* (mutant) the length test with >= for >
TooLongFrom(trimmedInput) == Len(trimmedInput) >= MaxInputLength

\* trimmedInput.length > 200
TooLong(trimmedInput) == Len(trimmedInput) > MaxInputLength

\* (mutant) the handler looking the input up in the cache before the admission
ReceiveCacheFirst(r, p, hasKey, raw, cf, xff) ==
  LET trimmedInput == TrimmedInputFor(raw)
      now    == clock
      today  == ToDateString(clock)
      rec    == [IdleReq EXCEPT !.route = "translate", !.proc = p, !.hasKey = hasKey,
                                !.raw = raw, !.cf = cf, !.xff = xff]
      run    == [rec EXCEPT !.input = trimmedInput, !.ip = CallerIp(cf, xff),
                            !.now = now, !.today = today,
                            !.dailyAtArrival = DailyCount(p, today)]
      cached == cache[<<CACHE_VERSION, trimmedInput>>]
  IN  /\ ~InFlight(r)
      /\ received' = received + 1
      /\ req' = [req EXCEPT ![r] =
           IF ~hasKey
           THEN Respond(rec, [status |-> 500,
                  error |-> "Missing OPENROUTER_API_KEY environment variable"])
           ELSE IF TooLong(trimmedInput)
           THEN Respond([rec EXCEPT !.input = trimmedInput], [status |-> 413,
                  error |-> "Input too long (max 200 characters)"])
           ELSE IF trimmedInput = <<>>
           THEN Respond([rec EXCEPT !.input = trimmedInput], [status |-> 400,
                  error |-> "Missing input field"])
           ELSE IF cached.some
           THEN Respond([run EXCEPT !.cacheHit = TRUE],
                        [status |-> 200, cron |-> cached.cron, model |-> cached.model,
                         input |-> cached.input])
           ELSE IF CacheIsFresh(p, today)
           THEN [run EXCEPT !.pc = "rl_check", !.alias = TRUE]
           ELSE [run EXCEPT !.pc = "rl_daily_get"]]
      /\ UNCHANGED <<clock, ticks, kvDaily, kvRate, cachedDailyUsage, cache, admitted>>

\* (mutant) the handler without its test of an empty input
ReceiveUnchecked(r, p, hasKey, raw, cf, xff) ==
  LET trimmedInput == TrimmedInputFor(raw)
      now   == clock
      today == ToDateString(clock)
      rec   == [IdleReq EXCEPT !.route = "translate", !.proc = p, !.hasKey = hasKey,
                               !.raw = raw, !.cf = cf, !.xff = xff]
      run   == [rec EXCEPT !.input = trimmedInput, !.ip = CallerIp(cf, xff),
                           !.now = now, !.today = today,
                           !.dailyAtArrival = DailyCount(p, today)]
  IN  /\ ~InFlight(r)
      /\ received' = received + 1
      /\ req' = [req EXCEPT ![r] =
           IF ~hasKey
           THEN Respond(rec, [status |-> 500,
                  error |-> "Missing OPENROUTER_API_KEY environment variable"])
           ELSE IF TooLong(trimmedInput)
           THEN Respond([rec EXCEPT !.input = trimmedInput], [status |-> 413,
                  error |-> "Input too long (max 200 characters)"])
           ELSE IF CacheIsFresh(p, today)
           THEN [run EXCEPT !.pc = "rl_check", !.alias = TRUE]
           ELSE [run EXCEPT !.pc = "rl_daily_get"]]
      /\ UNCHANGED <<clock, ticks, kvDaily, kvRate, cachedDailyUsage, cache, admitted>>

\* the handler up to its first suspension inside checkRateLimit: the API key test,
\* the normalization and its two tests, the caller identity, now and today, and
\* getDailyUsageInternal's test of the cache
Receive(r, p, hasKey, raw, cf, xff) ==
  LET trimmedInput == TrimmedInputFor(raw)
      now   == clock
      today == ToDateString(clock)
      rec   == [IdleReq EXCEPT !.route = "translate", !.proc = p, !.hasKey = hasKey,
                               !.raw = raw, !.cf = cf, !.xff = xff]
      run   == [rec EXCEPT !.input = trimmedInput, !.ip = CallerIp(cf, xff),
                           !.now = now, !.today = today,
                           !.dailyAtArrival = DailyCount(p, today)]
  IN  /\ ~InFlight(r)
      /\ received' = received + 1
      /\ req' = [req EXCEPT ![r] =
           IF ~hasKey
           THEN Respond(rec, [status |-> 500,
                  error |-> "Missing OPENROUTER_API_KEY environment variable"])
           ELSE IF TooLong(trimmedInput)
           THEN Respond([rec EXCEPT !.input = trimmedInput], [status |-> 413,
                  error |-> "Input too long (max 200 characters)"])
           ELSE IF trimmedInput = <<>>
           THEN Respond([rec EXCEPT !.input = trimmedInput], [status |-> 400,
                  error |-> "Missing input field"])
           ELSE IF CacheIsFresh(p, today)
           THEN [run EXCEPT !.pc = "rl_check", !.alias = TRUE]
           ELSE [run EXCEPT !.pc = "rl_daily_get"]]
      /\ UNCHANGED <<clock, ticks, kvDaily, kvRate, cachedDailyUsage, cache, admitted>>

\* the store answers the kv.get that request r has issued: the value it holds at
\* that moment, which r sees when it resumes
KvGet(r) ==
  /\ req[r].pc \in {"rl_daily_get", "rl_user_get", "usage_get"}
  /\ req' = [req EXCEPT ![r] =
       IF req[r].pc = "rl_daily_get"
       THEN [@ EXCEPT !.pc = "rl_daily_got", !.storedDaily = kvDaily]
       ELSE IF req[r].pc = "usage_get"
       THEN [@ EXCEPT !.pc = "usage_got", !.storedDaily = kvDaily]
       ELSE [@ EXCEPT !.pc = "rl_user_got", !.storedList = kvRate[req[r].ip]]]
  /\ UNCHANGED <<clock, ticks, received, kvDaily, kvRate, cachedDailyUsage, cache,
                 admitted>>

\* getDailyUsageInternal after kv.get(DAILY_USAGE_KEY): build the object, cache it
RlDailyGet(r) ==
  LET p      == req[r].proc
      loaded == LoadDailyUsage(req[r].storedDaily, req[r].today)
  IN  /\ req[r].pc = "rl_daily_got"
      /\ cachedDailyUsage' = [cachedDailyUsage EXCEPT ![p] = loaded]
      /\ req' = [Detach(p, cachedDailyUsage[p]) EXCEPT ![r] =
                   [req[r] EXCEPT !.pc = "rl_check", !.alias = TRUE]]
      /\ UNCHANGED <<clock, ticks, received, kvDaily, kvRate, cache, admitted>>

\* checkRateLimit's daily test; kv.get(userKey) is issued when it passes
RlCheck(r) ==
  /\ req[r].pc = "rl_check"
  /\ req' = [req EXCEPT ![r] =
       IF DailyDenies(Usage(r))
       THEN [@ EXCEPT !.pc = "denied", !.denial = "daily", !.alias = FALSE,
                      !.usage = Usage(r)]
       ELSE [@ EXCEPT !.pc = "rl_user_get"]]
  /\ UNCHANGED <<clock, ticks, received, kvDaily, kvRate, cachedDailyUsage, cache,
                 admitted>>

\* (mutant) checkRateLimit recording the request's time before its two tests
RlUserRecordsDenied(r) ==
  LET ip     == req[r].ip
      now    == req[r].now
      stored == req[r].storedList
      pruned == FilterYounger(stored, now, RATE_LIMIT_WINDOW)
      pushed == Append(pruned, now)
  IN  /\ req[r].pc = "rl_user_got"
      /\ kvRate' = [kvRate EXCEPT ![ip] = pushed]
      /\ IF WindowDenies(stored, now) \/ BurstDenies(stored, now)
         THEN /\ req' = [req EXCEPT ![r] =
                   [@ EXCEPT !.pc = "denied", !.readUser = TRUE, !.timestamps = pruned,
                             !.denial = IF WindowDenies(stored, now)
                                        THEN "perUser" ELSE "burst",
                             !.usage = Usage(r), !.alias = FALSE]]
              /\ UNCHANGED admitted
         ELSE /\ req' = [req EXCEPT ![r] =
                   [@ EXCEPT !.pc = "rl_update", !.readUser = TRUE, !.wroteUser = TRUE,
                             !.timestamps = pushed]]
              /\ admitted' = [admitted EXCEPT ![ip] = Append(@, now)]
      /\ UNCHANGED <<clock, ticks, received, kvDaily, cachedDailyUsage, cache>>

\* (mutant) checkRateLimit pushing onto the stored list instead of the pruned one
RlUserUnpruned(r) ==
  LET ip     == req[r].ip
      now    == req[r].now
      stored == req[r].storedList
      pruned == FilterYounger(stored, now, RATE_LIMIT_WINDOW)
      pushed == Append(stored, now)
  IN  /\ req[r].pc = "rl_user_got"
      /\ IF WindowDenies(stored, now) \/ BurstDenies(stored, now)
         THEN /\ req' = [req EXCEPT ![r] =
                   [@ EXCEPT !.pc = "denied", !.readUser = TRUE, !.timestamps = pruned,
                             !.denial = IF WindowDenies(stored, now)
                                        THEN "perUser" ELSE "burst",
                             !.usage = Usage(r), !.alias = FALSE]]
              /\ UNCHANGED <<kvRate, admitted>>
         ELSE /\ req' = [req EXCEPT ![r] =
                   [@ EXCEPT !.pc = "rl_update", !.readUser = TRUE, !.wroteUser = TRUE,
                             !.timestamps = pushed]]
              /\ kvRate' = [kvRate EXCEPT ![ip] = pushed]
              /\ admitted' = [admitted EXCEPT ![ip] = Append(@, now)]
      /\ UNCHANGED <<clock, ticks, received, kvDaily, cachedDailyUsage, cache>>

\* checkRateLimit after kv.get(userKey): prune, the window and burst tests, and
\* on a pass the push and kv.put(userKey)
RlUser(r) ==
  LET ip     == req[r].ip
      now    == req[r].now
      stored == req[r].storedList
      pruned == FilterYounger(stored, now, RATE_LIMIT_WINDOW)
      pushed == Append(pruned, now)
  IN  /\ req[r].pc = "rl_user_got"
      /\ IF WindowDenies(stored, now) \/ BurstDenies(stored, now)
         THEN /\ req' = [req EXCEPT ![r] =
                   [@ EXCEPT !.pc = "denied", !.readUser = TRUE, !.timestamps = pruned,
                             !.denial = IF WindowDenies(stored, now)
                                        THEN "perUser" ELSE "burst",
                             !.usage = Usage(r), !.alias = FALSE]]
              /\ UNCHANGED <<kvRate, admitted>>
         ELSE /\ req' = [req EXCEPT ![r] =
                   [@ EXCEPT !.pc = "rl_update", !.readUser = TRUE, !.wroteUser = TRUE,
                             !.timestamps = pushed]]
              /\ kvRate' = [kvRate EXCEPT ![ip] = pushed]
              /\ admitted' = [admitted EXCEPT ![ip] = Append(@, now)]
      /\ UNCHANGED <<clock, ticks, received, kvDaily, cachedDailyUsage, cache>>

\* checkRateLimit after kv.put(userKey): dailyUsage.count++ and updateDailyUsage
\* up to its kv.put
RlUpdate(r) ==
  LET p       == req[r].proc
      now     == req[r].now
      counted == [Usage(r) EXCEPT !.count = @ + 1]
      fresh   == [counted EXCEPT !.lastWrite = now]
      others  == Detach(p, IF req[r].alias THEN counted ELSE cachedDailyUsage[p])
  IN  /\ req[r].pc = "rl_update"
      /\ cachedDailyUsage' = [cachedDailyUsage EXCEPT ![p] = fresh]
      /\ IF DebounceElapsed(now, counted)
         THEN /\ kvDaily' = fresh
              /\ req' = [others EXCEPT ![r] =
                   [req[r] EXCEPT !.pc = "rl_flush", !.alias = FALSE, !.usage = counted]]
         ELSE /\ UNCHANGED kvDaily
              /\ req' = [others EXCEPT ![r] =
                   [req[r] EXCEPT !.pc = "cache_match", !.alias = FALSE,
                                  !.usage = counted]]
      /\ UNCHANGED <<clock, ticks, received, kvRate, cache, admitted>>

\* updateDailyUsage after kv.put(DAILY_USAGE_KEY): cachedDailyUsage.lastWrite = now
RlFlush(r) ==
  LET p == req[r].proc
  IN  /\ req[r].pc = "rl_flush"
      /\ cachedDailyUsage' =
           [cachedDailyUsage EXCEPT ![p] = [@ EXCEPT !.lastWrite = req[r].now]]
      /\ req' = [req EXCEPT ![r] = [@ EXCEPT !.pc = "cache_match"]]
      /\ UNCHANGED <<clock, ticks, received, kvDaily, kvRate, cache, admitted>>

\* the 429 of /api/translate, from getDailyUsage's result
RateLimitedResponse(stats) ==
  [status |-> 429,
   error |-> IF stats.remaining <= 0
             THEN "Daily API limit reached. Please try again tomorrow."
             ELSE "Rate limit exceeded. Please try again later.",
   rateLimitType |-> IF stats.remaining <= 0 THEN "daily" ELSE "perUser",
   details |-> [daily |-> stats,
                perUser |-> [maxPerHour |-> RATE_LIMIT_MAX,
                             windowMs |-> RATE_LIMIT_WINDOW]]]

\* the 200 of /health, from getDailyUsage's result
HealthResponse(stats) ==
  [status |-> 200,
   rateLimit |-> [perUser |-> [max |-> RATE_LIMIT_MAX, windowMs |-> RATE_LIMIT_WINDOW],
                  daily |-> [limit |-> DAILY_API_LIMIT, used |-> stats.count,
                             remaining |-> stats.remaining, date |-> stats.date]]]

\* what the caller of getDailyUsage answers with its result
UsageAnswer(rec, usage) ==
  IF rec.route = "health" THEN HealthResponse(UsageStats(usage))
  ELSE RateLimitedResponse(UsageStats(usage))

\* the handler after checkRateLimit returned false: getDailyUsage, and the 429 when
\* the cache holds today's object, else kv.get(DAILY_USAGE_KEY) is issued
RateLimited(r) ==
  LET p     == req[r].proc
      today == ToDateString(clock)
  IN  /\ req[r].pc = "denied"
      /\ req' = [req EXCEPT ![r] =
           IF CacheIsFresh(p, today)
           THEN Respond([@ EXCEPT !.usageDay = today],
                        UsageAnswer(req[r], cachedDailyUsage[p]))
           ELSE [@ EXCEPT !.pc = "usage_get", !.usageDay = today]]
      /\ UNCHANGED <<clock, ticks, received, kvDaily, kvRate, cachedDailyUsage, cache,
                     admitted>>

\* GET /health: the binding test and getDailyUsage, answered at once when the cache
\* holds today's object, else kv.get(DAILY_USAGE_KEY) is issued
Health(r, p, hasKv) ==
  LET today == ToDateString(clock)
      rec   == [IdleReq EXCEPT !.route = "health", !.proc = p, !.usageDay = today]
  IN  /\ ~InFlight(r)
      /\ received' = received + 1
      /\ req' = [req EXCEPT ![r] =
           IF ~hasKv
           THEN RespondJson(rec, [status |-> 500,
                  error |-> "Missing RATE_LIMIT_KV binding in environment"])
           ELSE IF CacheIsFresh(p, today)
           THEN RespondJson(rec, UsageAnswer(rec, cachedDailyUsage[p]))
           ELSE [rec EXCEPT !.pc = "usage_get"]]
      /\ UNCHANGED <<clock, ticks, kvDaily, kvRate, cachedDailyUsage, cache, admitted>>

\* getDailyUsage after kv.get(DAILY_USAGE_KEY): build the object, cache it, answer
UsageLoaded(r) ==
  LET p      == req[r].proc
      loaded == LoadDailyUsage(req[r].storedDaily, req[r].usageDay)
  IN  /\ req[r].pc = "usage_got"
      /\ cachedDailyUsage' = [cachedDailyUsage EXCEPT ![p] = loaded]
      /\ req' = [Detach(p, cachedDailyUsage[p]) EXCEPT ![r] =
                   IF req[r].route = "health"
                   THEN RespondJson(req[r], UsageAnswer(req[r], loaded))
                   ELSE Respond(req[r], UsageAnswer(req[r], loaded))]
      /\ UNCHANGED <<clock, ticks, received, kvDaily, kvRate, cache, admitted>>

\* (mutant) a cache key that leaves the input out
CacheKeyOfVersion(trimmedInput) == <<CACHE_VERSION, TrimmedInputOf[PlainInput]>>

\* the cache key: the version and the input (encodeURIComponent is one to one)
CacheKey(trimmedInput) == <<CACHE_VERSION, trimmedInput>>

\* the stored body parsed and stringified again: the three fields of ApiSuccess
OkResponse(entry) ==
  [status |-> 200, cron |-> entry.cron, model |-> entry.model, input |-> entry.input]

\* the 400 after the backup failed
FailedResponse(rec, attempts, lastError) ==
  [status |-> 400,
   error |-> "Could not translate input to a valid cron expression after retrying",
   details |-> [input |-> rec.input, model |-> rec.usedModel, attempts |-> attempts,
                lastError |-> JsonOfError(lastError)]]

\* the handler after cache.match: answer from the cache, or the first primary call
CacheMatch(r) ==
  LET cached == cache[CacheKey(req[r].input)]
  IN  /\ req[r].pc = "cache_match"
      /\ req' = [req EXCEPT ![r] =
           IF cached.some
           THEN Respond([@ EXCEPT !.cacheHit = TRUE], OkResponse(cached))
           ELSE [@ EXCEPT !.pc = "primary", !.attempts = 1,
                          !.events = Append(@, CallEvent(PRIMARY_MODEL, 1))]]
      /\ UNCHANGED <<clock, ticks, received, kvDaily, kvRate, cachedDailyUsage, cache,
                     admitted>>

\* the primary loop after makeApiCall(PRIMARY_MODEL, i) settled: keep the result,
\* or start the delay before the second attempt, or break and call the backup
PrimaryDone(r, out) ==
  LET i            == req[r].attempts
      call         == MakeApiCall(PRIMARY_MODEL, req[r].input, out)
      timeoutError == req[r].timeoutError \/ (~call.ok /\ IsTimeoutError(call.error))
      events       == Completed(req[r].events, call)
  IN  /\ req[r].pc = "primary"
      /\ req' = [req EXCEPT ![r] =
           IF call.ok
           THEN [@ EXCEPT !.pc = "cache_put", !.events = events,
                          !.result = call.result, !.usedModel = PRIMARY_MODEL]
           ELSE IF RetriesPrimary(timeoutError, i)
           THEN [@ EXCEPT !.pc = "delay", !.events = Append(events, DelayEvent),
                          !.timeoutError = timeoutError, !.lastError = call.error]
           ELSE [@ EXCEPT !.pc = "backup", !.attempts = @ + 1,
                          !.events = Append(events, CallEvent(BACKUP_MODEL, 1)),
                          !.timeoutError = timeoutError, !.lastError = call.error]]
      /\ UNCHANGED <<clock, ticks, received, kvDaily, kvRate, cachedDailyUsage, cache,
                     admitted>>

\* (mutant) a delay whose timer never fires
DelayNever(r) ==
  /\ req[r].pc = "delay"
  /\ FALSE
  /\ UNCHANGED vars

\* after delay(250): the second pass of the primary loop
Delay(r) ==
  /\ req[r].pc = "delay"
  /\ req' = [req EXCEPT ![r] =
       [@ EXCEPT !.pc = "primary", !.attempts = @ + 1,
                 !.events = Append(@, CallEvent(PRIMARY_MODEL, req[r].attempts + 1))]]
  /\ UNCHANGED <<clock, ticks, received, kvDaily, kvRate, cachedDailyUsage, cache,
                 admitted>>

\* (mutant) a failed translation gives the day's count back
BackupDoneRefunds(r, out) ==
  LET call         == MakeApiCall(BACKUP_MODEL, req[r].input, out)
      timeoutError == req[r].timeoutError \/ (~call.ok /\ IsTimeoutError(call.error))
      events       == Completed(req[r].events, call)
  IN  /\ req[r].pc = "backup"
      /\ req' = [req EXCEPT ![r] =
           IF call.ok
           THEN [@ EXCEPT !.pc = "cache_put", !.events = events,
                          !.result = call.result, !.usedModel = BACKUP_MODEL]
           ELSE Respond([@ EXCEPT !.events = events, !.timeoutError = timeoutError,
                                  !.lastError = call.error],
                        FailedResponse(req[r], req[r].attempts, call.error))]
      /\ cachedDailyUsage' =
           IF call.ok THEN cachedDailyUsage
           ELSE [cachedDailyUsage EXCEPT ![req[r].proc] = [@ EXCEPT !.count = @ - 1]]
      /\ UNCHANGED <<clock, ticks, received, kvDaily, kvRate, cache, admitted>>

\* after makeApiCall(BACKUP_MODEL, 1) settled: keep the result, or answer 400
BackupDone(r, out) ==
  LET call         == MakeApiCall(BACKUP_MODEL, req[r].input, out)
      timeoutError == req[r].timeoutError \/ (~call.ok /\ IsTimeoutError(call.error))
      events       == Completed(req[r].events, call)
  IN  /\ req[r].pc = "backup"
      /\ req' = [req EXCEPT ![r] =
           IF call.ok
           THEN [@ EXCEPT !.pc = "cache_put", !.events = events,
                          !.result = call.result, !.usedModel = BACKUP_MODEL]
           ELSE Respond([@ EXCEPT !.events = events, !.timeoutError = timeoutError,
                                  !.lastError = call.error],
                        FailedResponse(req[r], req[r].attempts, call.error))]
      /\ UNCHANGED <<clock, ticks, received, kvDaily, kvRate, cachedDailyUsage, cache,
                     admitted>>

\* (mutant) the entry stored with the body's input as it was received
CachePutRaw(r) ==
  /\ req[r].pc = "cache_put"
  /\ cache' = [cache EXCEPT ![CacheKey(req[r].input)] =
                 [req[r].result EXCEPT !.input = req[r].raw]]
  /\ req' = [req EXCEPT ![r] = Respond(@, OkResponse(req[r].result))]
  /\ UNCHANGED <<clock, ticks, received, kvDaily, kvRate, cachedDailyUsage, admitted>>

\* after cache.put: the entry is stored and the result is answered
CachePut(r) ==
  /\ req[r].pc = "cache_put"
  /\ cache' = [cache EXCEPT ![CacheKey(req[r].input)] = req[r].result]
  /\ req' = [req EXCEPT ![r] = Respond(@, OkResponse(req[r].result))]
  /\ UNCHANGED <<clock, ticks, received, kvDaily, kvRate, cachedDailyUsage, admitted>>

\* ------------------------------------------------------------ the validator alone

\* validateApiResponse called on a text: what it returns
Validate(r, response) ==
  LET validation == validateApiResponse(response)
  IN  /\ req[r].pc = "idle"
      /\ req' = [req EXCEPT ![r] =
           [IdleReq EXCEPT !.pc = "validated", !.route = "validate", !.raw = response,
                           !.resp = [status |-> 0, isValid |-> validation.isValid,
                                     error |-> validation.error]]]
      /\ UNCHANGED <<clock, ticks, received, kvDaily, kvRate, cachedDailyUsage, cache,
                     admitted>>

\* ------------------------------------------------------------ failing I/O

\* the error a failing operation of the store or of the cache throws
IoFailure == [message |-> <<"I", "/", "O">>, status |-> 0]

\* the handler's outer catch: the 500 with the error as details
InternalError(err) ==
  [status |-> 500, error |-> "Internal server error", details |-> JsonOfError(err)]

\* the kv.get or kv.put that request r awaits inside checkRateLimit or
\* getDailyUsage throws: neither function catches it and the handler's outer catch
\* answers (a put that throws is taken to have reached the store)
KvFail(r) ==
  /\ req[r].route = "translate"
  /\ req[r].pc \in {"rl_daily_get", "rl_user_get", "usage_get", "rl_update", "rl_flush"}
  /\ req' = [req EXCEPT ![r] =
       Respond([@ EXCEPT !.logged = Append(@, "Error in /api/translate")],
               InternalError(IoFailure))]
  /\ UNCHANGED <<clock, ticks, received, kvDaily, kvRate, cachedDailyUsage, cache,
                 admitted>>

\* cache.match throws: the error is logged and the handler goes on as on a miss
CacheMatchFail(r) ==
  /\ req[r].pc = "cache_match"
  /\ req' = [req EXCEPT ![r] =
       [@ EXCEPT !.pc = "primary", !.attempts = 1,
                 !.logged = Append(@, "CacheError"),
                 !.events = Append(@, CallEvent(PRIMARY_MODEL, 1))]]
  /\ UNCHANGED <<clock, ticks, received, kvDaily, kvRate, cachedDailyUsage, cache,
                 admitted>>

\* (mutant) cache.put outside a try block: its error reaches the outer catch
CachePutFailUncaught(r) ==
  /\ req[r].pc = "cache_put"
  /\ req' = [req EXCEPT ![r] =
       Respond([@ EXCEPT !.logged = Append(@, "CachePutError")],
               InternalError(IoFailure))]
  /\ UNCHANGED <<clock, ticks, received, kvDaily, kvRate, cachedDailyUsage, cache,
                 admitted>>

\* cache.put throws: the error is logged and the result is answered
CachePutFail(r) ==
  /\ req[r].pc = "cache_put"
  /\ req' = [req EXCEPT ![r] =
       Respond([@ EXCEPT !.logged = Append(@, "CachePutError")],
               OkResponse(req[r].result))]
  /\ UNCHANGED <<clock, ticks, received, kvDaily, kvRate, cachedDailyUsage, cache,
                 admitted>>

\* ------------------------------------------------------------ the environment

\* time passes, while no request is between two reads of the clock
Tick(d) ==
  /\ ticks < MaxTicks
  /\ \A r \in Slots : req[r].pc \in {"idle", "done", "denied"}
  /\ clock' = clock + d
  /\ ticks' = ticks + 1
  /\ UNCHANGED <<received, kvDaily, kvRate, cachedDailyUsage, cache, req, admitted>>

\* time passes while a request awaits the store
Elapse(d) ==
  /\ ticks < MaxTicks
  /\ \E r \in Slots : req[r].pc \in {"rl_daily_get", "rl_user_get", "usage_get"}
  /\ clock' = clock + d
  /\ ticks' = ticks + 1
  /\ UNCHANGED <<received, kvDaily, kvRate, cachedDailyUsage, cache, req, admitted>>

\* the isolate of process p is replaced: its module state starts again
Restart(p) ==
  /\ cachedDailyUsage[p].some
  /\ \A r \in Slots : req[r].proc = p => ~InFlight(r)
  /\ cachedDailyUsage' = [cachedDailyUsage EXCEPT ![p] = NoUsage]
  /\ UNCHANGED <<clock, ticks, received, kvDaily, kvRate, cache, req, admitted>>

\* the platform drops a cache entry
Evict(k) ==
  /\ cache[k].some
  /\ \A r \in Slots : ~InFlight(r)
  /\ cache' = [cache EXCEPT ![k] = NoEntry]
  /\ UNCHANGED <<clock, ticks, received, kvDaily, kvRate, cachedDailyUsage, req,
                 admitted>>

\* ------------------------------------------------------------ specification

\* the store when the process starts: nothing, or what earlier requests of other
\* callers left under "daily_usage" today or yesterday
InitDaily ==
  { NoUsage,
    [some |-> TRUE, count |-> DAILY_API_LIMIT - 2, date |-> ToDateString(StartTime),
     lastWrite |-> StartTime - WRITE_DEBOUNCE_MS],
    [some |-> TRUE, count |-> DAILY_API_LIMIT, date |-> ToDateString(StartTime),
     lastWrite |-> StartTime - WRITE_DEBOUNCE_MS],
    [some |-> TRUE, count |-> DAILY_API_LIMIT, date |-> ToDateString(StartTime) - 1,
     lastWrite |-> StartTime - DayMs] }

Init ==
  /\ clock = StartTime
  /\ ticks = 0
  /\ received = 0
  /\ kvDaily \in InitDaily
  /\ kvRate = [c \in Callers |-> <<>>]
  /\ cachedDailyUsage = [p \in Procs |-> NoUsage]
  /\ cache = [k \in CacheKeys |-> NoEntry]
  /\ req = [r \in Slots |-> IdleReq]
  /\ admitted = [c \in Callers |-> <<>>]

\* the steps of request r after it was received
Step(r) ==
  \/ KvGet(r)
  \/ RlDailyGet(r)
  \/ RlCheck(r)
  \/ RlUser(r)
  \/ RlUpdate(r)
  \/ RlFlush(r)
  \/ RateLimited(r)
  \/ CacheMatch(r)
  \/ \E out \in Outcomes : PrimaryDone(r, out)
  \/ Delay(r)
  \/ \E out \in Outcomes : BackupDone(r, out)
  \/ CachePut(r)

\* SpecTranslate: one process handling one request at a time, the clock standing
\* still, every input and every outcome of the models
InitTranslate == Init /\ kvDaily = NoUsage

NextTranslate ==
  \/ /\ received < MaxTranslations
     /\ \E hasKey \in BOOLEAN, raw \in RawInputs, cf \in CfValues :
          Receive(1, 1, hasKey, raw, cf, "")
  \/ Step(1)
  \/ \E k \in CacheKeys : Evict(k)

SpecTranslate == InitTranslate /\ [][NextTranslate]_vars

\* SpecQuota: one process handling one request at a time while time passes, two
\* caller identities, the models answering at once
QuotaInputs == {PlainInput}
QuotaOutcomes == {out \in Outcomes : out.kind = "content" /\ out.content = CronContent}

NextQuota ==
  \/ /\ received < MaxRequests
     /\ \E raw \in QuotaInputs, cf \in CfValues :
          Receive(1, 1, TRUE, raw, cf, "")
  \/ received < MaxRequests /\ \E hasKv \in BOOLEAN : Health(1, 1, hasKv)
  \/ KvGet(1)
  \/ RlDailyGet(1)
  \/ RlCheck(1)
  \/ RlUser(1)
  \/ RlUpdate(1)
  \/ RlFlush(1)
  \/ RateLimited(1)
  \/ UsageLoaded(1)
  \/ CacheMatch(1)
  \/ \E out \in QuotaOutcomes : PrimaryDone(1, out)
  \/ CachePut(1)
  \/ \E d \in Deltas : Tick(d)
  \/ Restart(1)

SpecQuota == Init /\ [][NextQuota]_vars

\* SpecRace: one process handling two requests at a time, interleaved at their
\* awaits, the clock standing still, two caller identities, the models answering
\* at once; the store starts empty or two short of the daily limit
InitRace ==
  /\ Init
  /\ \/ kvDaily = NoUsage
     \/ kvDaily.some /\ kvDaily.date = ToDateString(StartTime)
                     /\ kvDaily.count = DAILY_API_LIMIT - 2

NextRace ==
  \/ /\ received < MaxRaces
     /\ \E r \in Slots, raw \in QuotaInputs, cf \in CfValues :
          Receive(r, 1, TRUE, raw, cf, "")
  \/ received < MaxRaces /\ \E r \in Slots : Health(r, 1, TRUE)
  \/ \E r \in Slots : KvGet(r)
  \/ \E r \in Slots : RlDailyGet(r)
  \/ \E r \in Slots : RlCheck(r)
  \/ \E r \in Slots : RlUser(r)
  \/ \E r \in Slots : RlUpdate(r)
  \/ \E r \in Slots : RlFlush(r)
  \/ \E r \in Slots : RateLimited(r)
  \/ \E r \in Slots : UsageLoaded(r)
  \/ \E r \in Slots : CacheMatch(r)
  \/ \E r \in Slots, out \in QuotaOutcomes : PrimaryDone(r, out)
  \/ \E r \in Slots : CachePut(r)

SpecRace == InitRace /\ [][NextRace]_vars

\* SpecFaulty: one process handling one request at a time, the clock standing
\* still, while operations of the store and of the cache may throw
FaultyOutcomes ==
  {out \in Outcomes : out.kind = "throw" \/ out.content \in {CronContent, SentinelContent}}

NextFaulty ==
  \/ /\ received < MaxFaulty
     /\ \E raw \in QuotaInputs, cf \in CfValues : Receive(1, 1, TRUE, raw, cf, "")
  \/ KvGet(1)
  \/ RlDailyGet(1)
  \/ RlCheck(1)
  \/ RlUser(1)
  \/ RlUpdate(1)
  \/ RlFlush(1)
  \/ RateLimited(1)
  \/ CacheMatch(1)
  \/ \E out \in FaultyOutcomes : PrimaryDone(1, out)
  \/ Delay(1)
  \/ \E out \in FaultyOutcomes : BackupDone(1, out)
  \/ CachePut(1)
  \/ KvFail(1)
  \/ CacheMatchFail(1)
  \/ CachePutFail(1)

SpecFaulty == InitTranslate /\ [][NextFaulty]_vars

\* SpecDebounce: one process handling one request at a time from the first
\* millisecond of a day on, the clock advancing by one millisecond and by the
\* debounce interval, two caller identities, the models answering at once
InitDebounce ==
  /\ clock = StartTime + 1
  /\ ticks = 0
  /\ received = 0
  /\ kvDaily = NoUsage
  /\ kvRate = [c \in Callers |-> <<>>]
  /\ cachedDailyUsage = [p \in Procs |-> NoUsage]
  /\ cache = [k \in CacheKeys |-> NoEntry]
  /\ req = [r \in Slots |-> IdleReq]
  /\ admitted = [c \in Callers |-> <<>>]

NextDebounce ==
  \/ /\ received < MaxRequests
     /\ \E raw \in QuotaInputs, cf \in CfValues : Receive(1, 1, TRUE, raw, cf, "")
  \/ KvGet(1)
  \/ RlDailyGet(1)
  \/ RlCheck(1)
  \/ RlUser(1)
  \/ RlUpdate(1)
  \/ RlFlush(1)
  \/ RateLimited(1)
  \/ CacheMatch(1)
  \/ \E out \in QuotaOutcomes : PrimaryDone(1, out)
  \/ CachePut(1)
  \/ \E d \in {1, WRITE_DEBOUNCE_MS} : Tick(d)

SpecDebounce == InitDebounce /\ [][NextDebounce]_vars

\* SpecCallers: one process handling one request at a time, the clock standing
\* still, every combination of the two identity headers, the models answering at
\* once
NextCallers ==
  \/ /\ received < MaxCallerRequests
     /\ \E raw \in QuotaInputs, cf \in CfValues, xff \in XffValues :
          Receive(1, 1, TRUE, raw, cf, xff)
  \/ KvGet(1)
  \/ RlDailyGet(1)
  \/ RlCheck(1)
  \/ RlUser(1)
  \/ RlUpdate(1)
  \/ RlFlush(1)
  \/ RateLimited(1)
  \/ CacheMatch(1)
  \/ \E out \in QuotaOutcomes : PrimaryDone(1, out)
  \/ CachePut(1)

SpecCallers == InitTranslate /\ [][NextCallers]_vars

\* SpecValidate: the validator called on a text: five bare integers, a list, a range
\* or a step in one field, and the texts around the prose tests
NextValidate == \E response \in ValidatorTexts : Validate(1, response)

SpecValidate == InitTranslate /\ [][NextValidate]_vars

\* SpecInput: the handler up to its admission, once for a body out of every short
\* text and the bodies at the length limit, and once more for the body that is the
\* normalized input of the first
NextInput ==
  \/ /\ req[1].pc = "idle"
     /\ \E raw \in Texts \cup EdgeInputs : Receive(1, 1, TRUE, raw, "", "")
  \/ /\ req[1].pc # "idle"
     /\ req[2].pc = "idle"
     /\ Receive(2, 1, TRUE, req[1].input, "", "")

SpecInput == InitTranslate /\ [][NextInput]_vars

\* SpecIsolates: two processes sharing the store and the cache, each with its own
\* cachedDailyUsage, handling one request at a time between them from the first
\* millisecond of a day on, the clock advancing by one millisecond and by the
\* debounce interval, two caller identities, the models answering at once
NextIsolates ==
  \/ /\ received < MaxRequests
     /\ \E p \in Procs, raw \in QuotaInputs, cf \in CfValues :
          Receive(1, p, TRUE, raw, cf, "")
  \/ KvGet(1)
  \/ RlDailyGet(1)
  \/ RlCheck(1)
  \/ RlUser(1)
  \/ RlUpdate(1)
  \/ RlFlush(1)
  \/ RateLimited(1)
  \/ CacheMatch(1)
  \/ \E out \in QuotaOutcomes : PrimaryDone(1, out)
  \/ CachePut(1)
  \/ \E d \in {1, WRITE_DEBOUNCE_MS} : Tick(d)

SpecIsolates == InitDebounce /\ [][NextIsolates]_vars

\* SpecRecords: one process handling two requests of one caller at a time,
\* interleaved at their awaits, the clock advancing between requests and while a
\* request awaits the store, the models answering at once
NextRecords ==
  \/ /\ received < MaxRecordRequests
     /\ \E r \in Slots, raw \in QuotaInputs : Receive(r, 1, TRUE, raw, "198.51.100.7", "")
  \/ \E r \in Slots : KvGet(r)
  \/ \E r \in Slots : RlDailyGet(r)
  \/ \E r \in Slots : RlCheck(r)
  \/ \E r \in Slots : RlUser(r)
  \/ \E r \in Slots : RlUpdate(r)
  \/ \E r \in Slots : RlFlush(r)
  \/ \E r \in Slots : RateLimited(r)
  \/ \E r \in Slots : UsageLoaded(r)
  \/ \E r \in Slots : CacheMatch(r)
  \/ \E r \in Slots, out \in QuotaOutcomes : PrimaryDone(r, out)
  \/ \E r \in Slots : CachePut(r)
  \/ Tick(RATE_LIMIT_WINDOW - 1)
  \/ Elapse(1)

SpecRecords == InitDebounce /\ [][NextRecords]_vars

\* SpecLive: one process handling one request at a time, the clock standing still,
\* one caller, an input that is translated, an empty one and one too long, with
\* and without the API key, while the models fail or answer and operations of the
\* store and of the cache may throw; every operation a request awaits settles in
\* the end
LiveInputs == {PlainInput, BlankInput, LongInput}

Settles(r) ==
  \/ KvGet(r)
  \/ RlDailyGet(r)
  \/ RlCheck(r)
  \/ RlUser(r)
  \/ RlUpdate(r)
  \/ RlFlush(r)
  \/ RateLimited(r)
  \/ CacheMatch(r)
  \/ \E out \in FaultyOutcomes : PrimaryDone(r, out)
  \/ Delay(r)
  \/ \E out \in FaultyOutcomes : BackupDone(r, out)
  \/ CachePut(r)
  \/ KvFail(r)
  \/ CacheMatchFail(r)
  \/ CachePutFail(r)

NextLive ==
  \/ /\ received < MaxLive
     /\ \E hasKey \in BOOLEAN, raw \in LiveInputs : Receive(1, 1, hasKey, raw, "", "")
  \/ Settles(1)

SpecLive == InitTranslate /\ [][NextLive]_vars /\ WF_vars(Settles(1))

\* ------------------------------------------------------------ claims: quota

\* history: how many of a caller's admitted requests are younger than the window
AdmittedInWindow(c, now) == Len(FilterYounger(admitted[c], now, RATE_LIMIT_WINDOW))

\* history: the admitted timestamps of r's caller before r itself
AdmittedBefore(r) ==
  IF req[r].wroteUser
  THEN SubSeq(admitted[req[r].ip], 1, Len(admitted[req[r].ip]) - 1)
  ELSE admitted[req[r].ip]

\* history: how many requests were admitted on a calendar day
RECURSIVE CountOn(_, _)
CountOn(timestamps, day) ==
  IF timestamps = <<>> THEN 0
  ELSE (IF ToDateString(Head(timestamps)) = day THEN 1 ELSE 0)
         + CountOn(Tail(timestamps), day)

RECURSIVE SumOver(_, _)
SumOver(callers, day) ==
  IF callers = {} THEN 0
  ELSE LET c == CHOOSE x \in callers : TRUE
       IN  CountOn(admitted[c], day) + SumOver(callers \ {c}, day)

AdmittedOn(day) == SumOver(Callers, day)

\* r was answered after its admission was decided
Decided(r) == req[r].pc = "done" /\ req[r].ip # ""

\* C1: with admissions one at a time, at every instant every caller has at most
\* RATE_LIMIT_MAX admitted requests younger than the window; and a request that
\* passes the daily test while RATE_LIMIT_MAX admitted timestamps of its caller are
\* inside the window is answered 429 with rateLimitType "perUser"
C1_PerCallerCap ==
  /\ \A c \in Callers : AdmittedInWindow(c, clock) <= RATE_LIMIT_MAX
  /\ \A r \in Slots :
       /\ Decided(r)
       /\ req[r].dailyAtArrival < DAILY_API_LIMIT
       /\ Len(FilterYounger(AdmittedBefore(r), req[r].now, RATE_LIMIT_WINDOW))
            >= RATE_LIMIT_MAX
       => /\ req[r].resp.status = 429
          /\ req[r].resp.rateLimitType = "perUser"
          /\ ~req[r].wroteUser

C1_Witness ==
  \E r \in Slots :
    /\ Decided(r)
    /\ req[r].dailyAtArrival < DAILY_API_LIMIT
    /\ Len(FilterYounger(admitted[req[r].ip], req[r].now, RATE_LIMIT_WINDOW))
         = RATE_LIMIT_MAX
    /\ req[r].resp.status = 429
    /\ req[r].resp.rateLimitType = "perUser"

\* C2: a request that arrives when the day's count has reached DAILY_API_LIMIT is
\* denied by the daily test, whatever its caller's history: it is answered 429, its
\* caller's record is neither read nor written, and the 429 built on the same day
\* says "daily"
C2_DailyCapDenies ==
  \A r \in Slots :
    Decided(r) /\ req[r].dailyAtArrival >= DAILY_API_LIMIT
    => /\ req[r].resp.status = 429
       /\ req[r].denial = "daily"
       /\ ~req[r].readUser
       /\ ~req[r].wroteUser
       /\ (req[r].resp.details.daily.date = req[r].today
             => req[r].resp.rateLimitType = "daily")

C2_Witness ==
  \E r \in Slots :
    /\ Decided(r)
    /\ req[r].dailyAtArrival = DAILY_API_LIMIT
    /\ admitted[req[r].ip] # <<>>
    /\ AdmittedInWindow(req[r].ip, req[r].now) < RATE_LIMIT_MAX
    /\ req[r].resp.status = 429
    /\ req[r].resp.rateLimitType = "daily"

\* C3: after the date has changed, the daily test reads an object of the request's
\* own day whose count is at most the number of requests admitted on that day: zero
\* at the first test of the day, so no earlier day's count is carried over, whether
\* the cache or the store held it
C3_DailyReset ==
  \A r \in Slots :
    req[r].pc = "rl_check" /\ req[r].today > ToDateString(StartTime)
    => /\ Usage(r).date = req[r].today
       /\ Usage(r).count <= AdmittedOn(req[r].today)

C3_Witness ==
  \E r \in Slots :
    /\ req[r].pc = "rl_user_get"
    /\ req[r].today > ToDateString(StartTime)
    /\ AdmittedOn(req[r].today) = 0
    /\ kvDaily.some /\ kvDaily.date < req[r].today /\ kvDaily.count >= DAILY_API_LIMIT

\* ------------------------------------------------------------ claims: translation

IsCall(e) == e.kind = "call"
IsPrimaryCall(e) == e.kind = "call" /\ e.model = PRIMARY_MODEL
IsBackupCall(e) == e.kind = "call" /\ e.model = BACKUP_MODEL
IsDelay(e) == e.kind = "delay"

\* history: the calls r made, to the primary, to the backup
Calls(r) == SelectSeq(req[r].events, IsCall)
PrimaryCalls(r) == SelectSeq(req[r].events, IsPrimaryCall)
BackupCalls(r) == SelectSeq(req[r].events, IsBackupCall)

\* a call that failed in the transport with a timeout, as against one that failed
\* otherwise or whose output the validator rejected
TimedOut(e) == e.outcome = "failed" /\ e.thrown /\ e.error = TimeoutFailure

\* r is through with the primary model
PrimaryOver(r) == req[r].pc \in {"backup", "cache_put", "done"} /\ req[r].events # <<>>

\* C4: a request that reaches the cache lookup while the entry of its normalized
\* input is present is answered, in that step, 200 with exactly the stored result,
\* which is a result for the same normalized input; it has made no model call and
\* the cache is left as it was
C4_CacheHit ==
  [][\A r \in Slots :
       /\ req[r].pc = "cache_match"
       /\ cache[CacheKey(req[r].input)].some
       /\ req'[r] # req[r]
       => /\ req'[r].pc = "done"
          /\ req'[r].resp = [status |-> 200,
                             cron  |-> cache[CacheKey(req[r].input)].cron,
                             model |-> cache[CacheKey(req[r].input)].model,
                             input |-> cache[CacheKey(req[r].input)].input]
          /\ req'[r].resp.input = req[r].input
          /\ req'[r].events = <<>>
          /\ req'[r].attempts = 0
          /\ cache' = cache]_vars

C4_Witness ==
  \E r \in Slots :
    /\ req[r].pc = "done"
    /\ req[r].cacheHit
    /\ req[r].raw = MessyInput
    /\ req[r].resp.status = 200
    /\ req[r].resp.model = BACKUP_MODEL
    /\ req[r].events = <<>>

\* C5: when the primary's first attempt failed with a timeout, a second attempt is
\* made after the delay; and when that second attempt is valid, the request made
\* exactly two calls, both to the primary, with the delay between them and none to
\* the backup, its model is the primary, its attempts are 2 and its answer is 200
\* with the primary as model
C5_TimeoutThenValid ==
  \A r \in Slots :
    PrimaryOver(r) /\ TimedOut(PrimaryCalls(r)[1])
    => /\ Len(PrimaryCalls(r)) = 2
       /\ req[r].events[2] = DelayEvent
       /\ PrimaryCalls(r)[2].outcome = "valid"
          => /\ Len(req[r].events) = 3
             /\ IsPrimaryCall(req[r].events[1])
             /\ IsPrimaryCall(req[r].events[3])
             /\ BackupCalls(r) = <<>>
             /\ req[r].usedModel = PRIMARY_MODEL
             /\ req[r].attempts = 2
             /\ req[r].pc = "done"
                => /\ req[r].resp.status = 200
                   /\ req[r].resp.model = PRIMARY_MODEL

C5_Witness ==
  \E r \in Slots :
    /\ req[r].pc = "done"
    /\ Len(req[r].events) = 3
    /\ TimedOut(req[r].events[1])
    /\ req[r].events[3].outcome = "valid"
    /\ req[r].events[3].temperature = 1
    /\ req[r].resp.status = 200

\* C6: when the primary's first attempt failed otherwise than with a timeout, a
\* rejected output included, the primary is not tried again, no delay occurs and
\* the backup is called once; and when the backup's output is valid the model is
\* the backup and the attempts are 2
C6_OtherFailureThenBackup ==
  \A r \in Slots :
    /\ PrimaryOver(r)
    /\ PrimaryCalls(r)[1].outcome = "failed"
    /\ ~TimedOut(PrimaryCalls(r)[1])
    => /\ Len(PrimaryCalls(r)) = 1
       /\ SelectSeq(req[r].events, IsDelay) = <<>>
       /\ Len(BackupCalls(r)) = 1
       /\ BackupCalls(r)[1].outcome = "valid"
          => req[r].usedModel = BACKUP_MODEL /\ req[r].attempts = 2

\* C7: the primary is attempted a second time only after its first attempt failed
\* in the transport with a timeout, never after the validator rejected its output
C7_RetryOnlyAfterTimeout ==
  \A r \in Slots :
    Len(PrimaryCalls(r)) >= 2 => TimedOut(PrimaryCalls(r)[1])

\* C8: a request calls the primary at most twice and the backup at most once, three
\* calls at most; every call to the backup comes after a call to the primary and
\* after every primary call has failed; a valid output is the last call; and once
\* the primary is over, the backup is called exactly when no primary call was valid
C8_CallBounds ==
  \A r \in Slots :
    LET ev == req[r].events
    IN  /\ Len(PrimaryCalls(r)) <= 2
        /\ Len(BackupCalls(r)) <= 1
        /\ Len(Calls(r)) <= 3
        /\ \A j \in 1..Len(ev) :
             IsBackupCall(ev[j])
             => /\ \E i \in 1..(j - 1) : IsPrimaryCall(ev[i])
                /\ \A i \in 1..Len(ev) :
                     IsPrimaryCall(ev[i]) => i < j /\ ev[i].outcome = "failed"
        /\ \A j \in 1..Len(ev) : ev[j].outcome = "valid" => j = Len(ev)
        /\ PrimaryOver(r)
           => (BackupCalls(r) # <<>>
                 <=> \A i \in 1..Len(ev) :
                       IsPrimaryCall(ev[i]) => ev[i].outcome # "valid")

C8_Witness ==
  \E r \in Slots :
    /\ req[r].pc = "done"
    /\ Len(PrimaryCalls(r)) = 2
    /\ Len(BackupCalls(r)) = 1
    /\ IsBackupCall(req[r].events[Len(req[r].events)])

C10_AllFailed ==
  \A r \in Slots :
    LET ev == req[r].events
    IN  /\ req[r].pc = "done"
        /\ ev # <<>>
        /\ \A j \in 1..Len(ev) : ev[j].outcome # "valid"
        => /\ req[r].resp.status = 400
           /\ req[r].resp.details.attempts = Len(Calls(r))
           /\ req[r].resp.details.attempts \in {2, 3}
           /\ IsBackupCall(ev[Len(ev)])
           /\ req[r].resp.details.model = ""
           /\ req[r].resp.details.input = req[r].input
           /\ req[r].resp.details.lastError = ev[Len(ev)].error

\* C11: a primary output equal to the sentinel "invalid" counts as a failed call;
\* the primary is not tried again and no delay occurs, the backup is called once;
\* and when the backup returns the sentinel too, the answer is 400 and the cache
\* holds no entry for the request's input
C11_SentinelRejected ==
  \A r \in Slots :
    /\ PrimaryOver(r)
    /\ ~PrimaryCalls(r)[1].thrown
    /\ PrimaryCalls(r)[1].output = SentinelContent
    => /\ PrimaryCalls(r)[1].outcome = "failed"
       /\ Len(PrimaryCalls(r)) = 1
       /\ SelectSeq(req[r].events, IsDelay) = <<>>
       /\ Len(BackupCalls(r)) = 1
       /\ /\ req[r].pc = "done"
          /\ ~BackupCalls(r)[1].thrown
          /\ BackupCalls(r)[1].output = SentinelContent
          => /\ req[r].resp.status = 400
             /\ req[r].result = NoEntry
             /\ ~cache[CacheKey(req[r].input)].some

C11_Witness ==
  \E r \in Slots :
    /\ req[r].pc = "done"
    /\ Len(req[r].events) = 2
    /\ req[r].events[1].output = SentinelContent
    /\ req[r].events[2].output = SentinelContent
    /\ req[r].events[2].model = BACKUP_MODEL
    /\ req[r].resp.status = 400

\* the days on which an admission can still be decided
DaysAhead == {ToDateString(clock), ToDateString(clock) + 1}

\* C14: a step of getDailyUsage, called from /health or for the 429, leaves the
\* store's daily value and every caller's record as they were, and leaves the
\* day's count that the next admission will test as it was, in every state: on
\* the first call of a day, on the first call after a restart, and while another
\* request is being admitted
C14_UsageReadOnly ==
  [][\A r \in Slots :
       /\ req'[r] # req[r]
       /\ \/ req'[r].route = "health"
          \/ req[r].pc \in {"denied", "usage_get", "usage_got"}
       => /\ kvDaily' = kvDaily
          /\ kvRate' = kvRate
          /\ admitted' = admitted
          /\ \A p \in Procs : \A d \in DaysAhead :
               DailyCount(p, d)' = DailyCount(p, d)]_vars

\* C20: with admissions one at a time, no caller has more than BURST_LIMIT
\* admitted requests inside any interval of BURST_WINDOW_MS: of any BURST_LIMIT + 1
\* admitted requests of a caller, the last is at least BURST_WINDOW_MS after the first
C20_BurstCap ==
  \A c \in Callers :
    \A i \in 1..Len(admitted[c]) : \A k \in 1..Len(admitted[c]) :
      k >= i + BURST_LIMIT => admitted[c][k] - admitted[c][i] >= BURST_WINDOW_MS

C20_Witness ==
  \E r \in Slots :
    /\ Decided(r)
    /\ req[r].resp.status = 429
    /\ req[r].denial # "daily"
    /\ Len(FilterYounger(admitted[req[r].ip], req[r].now, BURST_WINDOW_MS)) = BURST_LIMIT
    /\ req[r].now > admitted[req[r].ip][1]
    /\ Len(admitted[req[r].ip]) = BURST_LIMIT

\* history: how many requests, of all callers, were admitted in the last
\* WRITE_DEBOUNCE_MS before now
RECURSIVE RecentOver(_, _)
RecentOver(callers, now) ==
  IF callers = {} THEN 0
  ELSE LET c == CHOOSE x \in callers : TRUE
       IN  Len(FilterYounger(admitted[c], now, WRITE_DEBOUNCE_MS + 1))
             + RecentOver(callers \ {c}, now)

\* the count of a day that a process started now would load from the store
Reloaded(day) == LoadDailyUsage(kvDaily, day).count

\* C21: when the process restarts on a day that began after the store was first
\* read, the count it will reload from the store is at most the number of requests
\* admitted that day, and falls short of it by no more than the number of requests
\* admitted within the last WRITE_DEBOUNCE_MS before the restart
C21_RestartLoss ==
  [][/\ cachedDailyUsage[1].some
     /\ ~cachedDailyUsage'[1].some
     /\ ToDateString(clock) > ToDateString(StartTime)
     => /\ Reloaded(ToDateString(clock)) <= AdmittedOn(ToDateString(clock))
        /\ AdmittedOn(ToDateString(clock)) - Reloaded(ToDateString(clock))
             <= RecentOver(Callers, clock)]_vars

\* ------------------------------------------------------------ claims: input

\* r's body was normalized by the handler
Normalized(r) == req[r].pc # "idle" /\ req[r].route = "translate" /\ req[r].hasKey

\* C22: the normalization is idempotent: the normalized input of a body, normalized
\* again, is itself; and a request whose body is the normalized input of another
\* has that same text as its normalized input
C22_Idempotent ==
  /\ \A r \in Slots : Normalized(r) => TrimmedInput(req[r].input) = req[r].input
  /\ Normalized(2) /\ req[2].raw = req[1].input => req[2].input = req[1].input

C22_Witness ==
  /\ req[1].raw = <<"A", " ", "NUL", "\t", "<">>
  /\ req[1].input = <<"a">>
  /\ Normalized(2)
  /\ req[2].raw = <<"a">>

\* C25: a request whose body normalizes to more than 200 characters is answered
\* 413 "Input too long (max 200 characters)" and one whose body normalizes to the
\* empty text 400 "Missing input field", both without reaching the admission; one
\* whose body normalizes to exactly 200 characters, or to fewer and at least one,
\* is answered neither and goes on to the admission
C25_InputErrors ==
  \A r \in Slots :
    Normalized(r)
    => /\ Len(TrimmedInput(req[r].raw)) > 200
          => /\ req[r].pc = "done"
             /\ req[r].resp = [status |-> 413,
                               error |-> "Input too long (max 200 characters)"]
             /\ req[r].ip = ""
       /\ TrimmedInput(req[r].raw) = <<>>
          => /\ req[r].pc = "done"
             /\ req[r].resp = [status |-> 400, error |-> "Missing input field"]
             /\ req[r].ip = ""
       /\ Len(TrimmedInput(req[r].raw)) \in 1..200
          => /\ req[r].pc \in {"rl_check", "rl_daily_get"}
             /\ req[r].resp = NoResponse
             /\ req[r].ip # ""

C25_Witness ==
  /\ Normalized(1)
  /\ Len(req[1].raw) > 200
  /\ Len(req[1].input) = 200
  /\ req[1].pc = "rl_daily_get"
  /\ Normalized(2)
  /\ req[2].raw = ExactInput

\* the identity the headers of r give: the proxy's header when it has a value, else
\* the forwarded-for header when it has one, else "unknown"
Identity(r) ==
  IF req[r].cf # "" THEN req[r].cf
  ELSE IF req[r].xff # "" THEN req[r].xff
  ELSE "unknown"

\* C26: a request is admitted under the identity its headers give; the record it
\* reads and the record it writes are those of that identity, and a step changes
\* the record of an identity only for a request of that identity; and a request
\* without either header, arriving when RATE_LIMIT_MAX requests without either
\* header were admitted, is answered 429
C26_CallerIdentity ==
  /\ [](\A r \in Slots :
          req[r].ip # ""
          => /\ req[r].ip = Identity(r)
             /\ req[r].pc = "rl_user_got" => req[r].storedList = kvRate[Identity(r)]
             /\ req[r].wroteUser => req[r].timestamps = kvRate[Identity(r)]
             /\ /\ Decided(r)
                /\ req[r].cf = "" /\ req[r].xff = ""
                /\ Len(admitted["unknown"]) >= RATE_LIMIT_MAX
                /\ ~req[r].wroteUser
                => req[r].resp.status = 429)
  /\ [][\A c \in Callers :
          kvRate'[c] # kvRate[c]
          => \E r \in Slots : req[r].pc = "rl_user_got" /\ Identity(r) = c]_vars

C26_Witness ==
  \E r \in Slots :
    /\ Decided(r)
    /\ req[r].cf = "" /\ req[r].xff = ""
    /\ req[r].resp.status = 429
    /\ Len(kvRate["unknown"]) = RATE_LIMIT_MAX
    /\ \A c \in Callers \ {"unknown"} : kvRate[c] = <<>>

\* C27: every answer of POST /api/translate and of GET /health carries the six
\* security headers with their values
C27_SecurityHeaders ==
  \A r \in Slots : req[r].pc = "done" => securityHeaders \subseteq req[r].headers

\* ------------------------------------------------------------ claims: validator

\* the validator was called on r's text
Validated(r) == req[r].pc = "validated"

\* the white space separated fields of a text
FieldsOf(text) == SplitSpace(Trim(text))

\* a text with a line feed or a carriage return in it
HasLineBreak(text) == \E i \in 1..Len(text) : text[i] \in {"\n", "\r"}

\* a text that starts with one of the conversational lead-ins
HasLeadIn(text) ==
  \E w \in {"here", "the", "this", "that", "it", "expression", "cron"} :
    StartsWith(ToLowerCase(Trim(text)), Words[w])

FieldNames == <<"minute", "hour", "dayOfMonth", "month", "dayOfWeek">>

\* C23: the validator rejects every text with a line break in it, every text with
\* fewer or more than five fields and every text that starts with a lead-in, and a
\* text it accepts has exactly five fields, each matching the pattern of its field
C23_ValidateShape ==
  \A r \in Slots :
    Validated(r)
    => /\ HasLineBreak(req[r].raw) => ~req[r].resp.isValid
       /\ Len(FieldsOf(req[r].raw)) # 5 => ~req[r].resp.isValid
       /\ HasLeadIn(req[r].raw) => ~req[r].resp.isValid
       /\ req[r].resp.isValid
          => /\ Len(FieldsOf(req[r].raw)) = 5
             /\ \A p \in 1..5 : FieldMatches(FieldNames[p], FieldsOf(req[r].raw)[p])

\* the value of a digit
DigitValue(c) == CHOOSE n \in 0..9 : Digits[n + 1] = c

\* the numbers written in a text: its maximal runs of digits, read in base ten
\* (acc: the value of the run so far, open: a run is being read)
RECURSIVE NumbersIn(_, _, _)
NumbersIn(text, acc, open) ==
  IF text = <<>> THEN (IF open THEN {acc} ELSE {})
  ELSE IF IsDigit(Head(text))
  THEN NumbersIn(Tail(text), (IF open THEN 10 * acc ELSE 0) + DigitValue(Head(text)), TRUE)
  ELSE (IF open THEN {acc} ELSE {}) \cup NumbersIn(Tail(text), 0, FALSE)

\* the legal numbers of each field
FieldRanges == <<0..59, 0..23, 1..31, 1..12, 0..6>>

\* C24: in a text of five fields that the validator accepts, every number lies in
\* the legal range of its field; and the validator accepts every text of five bare
\* integers that each lie in the legal range of their field
C24_NumbersInRange ==
  \A r \in Slots :
    Validated(r) /\ Len(FieldsOf(req[r].raw)) = 5
    => /\ req[r].resp.isValid
          => \A p \in 1..5 :
               NumbersIn(FieldsOf(req[r].raw)[p], 0, FALSE) \subseteq FieldRanges[p]
       /\ (\A p \in 1..5 : \E n \in FieldRanges[p] : FieldsOf(req[r].raw)[p] = NumeralOf(n))
          => req[r].resp.isValid

\* ------------------------------------------------------------ claims: time

\* history: how many of these timestamps are less than a window before now
YoungerThan(timestamps, now, window) ==
  Cardinality({i \in 1..Len(timestamps) : now - timestamps[i] < window})

\* C28: with admissions one at a time, a request is admitted whenever, at its
\* arrival, fewer than RATE_LIMIT_MAX admitted requests of its caller are less than
\* RATE_LIMIT_WINDOW old, fewer than BURST_LIMIT less than BURST_WINDOW_MS old, and
\* the day's count is below DAILY_API_LIMIT; an admitted request exactly one window
\* old is not counted; and a request that is denied leaves every caller's record as
\* it was, so that it postpones nothing
C28_Readmission ==
  /\ [](\A r \in Slots :
          /\ Decided(r)
          /\ req[r].dailyAtArrival < DAILY_API_LIMIT
          /\ YoungerThan(AdmittedBefore(r), req[r].now, RATE_LIMIT_WINDOW) < RATE_LIMIT_MAX
          /\ YoungerThan(AdmittedBefore(r), req[r].now, BURST_WINDOW_MS) < BURST_LIMIT
          => /\ req[r].wroteUser
             /\ req[r].resp.status = 200)
  /\ [][\A r \in Slots : req'[r].pc = "denied" => kvRate' = kvRate]_vars

C28_Witness ==
  \E r \in Slots :
    /\ Decided(r)
    /\ req[r].wroteUser
    /\ req[r].resp.status = 200
    /\ Len(admitted[req[r].ip]) = RATE_LIMIT_MAX + 1
    /\ admitted[req[r].ip][RATE_LIMIT_MAX] = req[r].now - RATE_LIMIT_WINDOW
    /\ received = RATE_LIMIT_MAX + 2
    /\ \A c \in Callers \ {req[r].ip} : admitted[c] = <<>>

\* the store holds a count of this day
StoredFor(day) == kvDaily.some /\ kvDaily.date = day

\* C29: the step of an admission that counts the request writes the counter to the
\* store exactly when the store holds no count of the day or its count was written
\* more than WRITE_DEBOUNCE_MS before the request; and what it writes is the count
\* the process then holds
C29_DebouncedWrite ==
  [][\A r \in Slots :
       req[r].pc = "rl_update" /\ req'[r].pc \in {"rl_flush", "cache_match"}
       => /\ kvDaily' # kvDaily
             <=> \/ ~StoredFor(req[r].today)
                 \/ req[r].now - kvDaily.lastWrite > WRITE_DEBOUNCE_MS
          /\ kvDaily' # kvDaily
             => kvDaily'.count = cachedDailyUsage'[req[r].proc].count]_vars

\* ------------------------------------------------------------ claims: failing I/O

\* r logged an error under this tag
Logged(r, tag) == \E i \in 1..Len(req[r].logged) : req[r].logged[i] = tag

\* C15: a request that has its API key is never answered 500, whatever operation of
\* the quota store throws during its admission
C15_StoreErrorSwallowed ==
  \A r \in Slots :
    req[r].pc = "done" /\ req[r].route = "translate" /\ req[r].hasKey
    => req[r].resp.status # 500

\* C16: a request whose cache.match threw goes on to call the primary model, as on
\* a miss, and is answered 200 or 400 by what the models return; a request whose
\* cache.put threw is answered 200 with the result it translated; neither is
\* answered 500 for it
C16_CacheErrorSwallowed ==
  \A r \in Slots :
    /\ Logged(r, "CacheError")
       => /\ req[r].events # <<>>
          /\ IsPrimaryCall(req[r].events[1])
          /\ ~req[r].cacheHit
          /\ req[r].pc = "done" /\ ~Logged(r, "Error in /api/translate")
             => /\ req[r].resp.status \in {200, 400}
                /\ req[r].resp.status = 200
                     <=> req[r].events[Len(req[r].events)].outcome = "valid"
    /\ Logged(r, "CachePutError")
       => /\ req[r].pc = "done"
          /\ req[r].result.some
          /\ req[r].resp = [status |-> 200, cron |-> req[r].result.cron,
                            model |-> req[r].result.model,
                            input |-> req[r].result.input]
          /\ req[r].resp.cron = req[r].events[Len(req[r].events)].output

C16_Witness ==
  \E r \in Slots :
    /\ req[r].pc = "done"
    /\ Logged(r, "CacheError")
    /\ Logged(r, "CachePutError")
    /\ cache[CacheKey(req[r].input)].some
    /\ req[r].resp.status = 200
    /\ req[r].resp.model = BACKUP_MODEL
    /\ cache[CacheKey(req[r].input)].model = PRIMARY_MODEL

\* C17: the answer does not wait for the cache: in every state where a request's
\* cache.put has been issued and has not settled, its 200 has been returned
C17_ResponseNotWaiting ==
  \A r \in Slots :
    req[r].pc = "cache_put" /\ req[r].result.some => req[r].resp.status = 200

\* ------------------------------------------------------------ claims: races

\* history: the day's count the store held when the behaviour began: the stored
\* count never falls below it, and a behaviour admits fewer requests than that
StoredAtStart ==
  IF kvDaily.some /\ kvDaily.count >= DAILY_API_LIMIT - 2
  THEN DAILY_API_LIMIT - 2 ELSE 0

\* history: the requests admitted on a day, the earlier ones the store counted
\* included
AdmittedToday == StoredAtStart + AdmittedOn(ToDateString(StartTime))

\* C12: with at most two admissions in flight in one process, at most
\* DAILY_API_LIMIT + 1 requests are admitted on one day
C12_DailyOvershoot == AdmittedToday <= DAILY_API_LIMIT + 1

\* C13: with at most two admissions of one caller in flight, at most
\* RATE_LIMIT_MAX + 1 of that caller's requests are admitted within a window
C13_CallerOvershoot ==
  \A c \in Callers : AdmittedInWindow(c, clock) <= RATE_LIMIT_MAX + 1

\* C30: while the process holds a count of a day, no step leaves it holding a
\* smaller count of the same day
C30_CountMonotone ==
  [][\A p \in Procs :
       /\ cachedDailyUsage[p].some
       /\ cachedDailyUsage'[p].some
       /\ cachedDailyUsage'[p].date = cachedDailyUsage[p].date
       => cachedDailyUsage'[p].count >= cachedDailyUsage[p].count]_vars

\* C18: an entry of the cache is created once and never replaced: no cache.put
\* settles for a key that holds an entry
C18_PutOnce ==
  [][\A r \in Slots :
       /\ req[r].pc = "cache_put"
       /\ req'[r].pc = "done"
       /\ req'[r].logged = req[r].logged
       => ~cache[CacheKey(req[r].input)].some]_vars

\* C19: a 429 says "daily" exactly when the daily test denied the request, and
\* "perUser" exactly when the window test or the burst test did
C19_Discriminator ==
  \A r \in Slots :
    Decided(r) /\ req[r].resp.status = 429
    => /\ req[r].resp.rateLimitType = "daily" <=> req[r].denial = "daily"
       /\ req[r].resp.rateLimitType = "perUser" <=> req[r].denial \in {"perUser", "burst"}

\* ------------------------------------------------------------ claims: processes

\* C31: with two processes on one store, the daily test of an admission uses a
\* count that is at least the count the store holds for the request's day (a
\* process never holds less than it has written itself, so that a smaller count
\* is one another process has written), and no write of the counter replaces a
\* count of a day by a smaller count of that day
C31_StoreIsTruth ==
  [][/\ \A r \in Slots :
          /\ req[r].pc = "rl_check"
          /\ req'[r].pc # "rl_check"
          /\ StoredFor(req[r].today)
          => Usage(r).count >= kvDaily.count
     /\ kvDaily.some /\ kvDaily'.some /\ kvDaily'.date = kvDaily.date
        => kvDaily'.count >= kvDaily.count]_vars

\* ------------------------------------------------------------ claims: order of steps

\* the cache holds an entry for the input of r
Cached(r) == cache[<<CACHE_VERSION, req[r].input>>].some

\* C32: the admission comes before the cache lookup: a request answered from the
\* cache was admitted, its time is the last of its caller's stored timestamps and
\* the day's count it leaves is one more than the count at its arrival; and a
\* request whose input is cached, arriving when its caller has RATE_LIMIT_MAX
\* admitted requests inside the window or when the day's count has reached
\* DAILY_API_LIMIT, is answered 429 and not from the cache
C32_HitConsumesQuota ==
  \A r \in Slots :
    Decided(r)
    => /\ req[r].cacheHit
          => /\ req[r].wroteUser
             /\ kvRate[req[r].ip] # <<>>
             /\ kvRate[req[r].ip][Len(kvRate[req[r].ip])] = req[r].now
             /\ req[r].usage.count = req[r].dailyAtArrival + 1
       /\ /\ Cached(r)
          /\ \/ YoungerThan(AdmittedBefore(r), req[r].now, RATE_LIMIT_WINDOW)
                  >= RATE_LIMIT_MAX
             \/ req[r].dailyAtArrival >= DAILY_API_LIMIT
          => /\ req[r].resp.status = 429
             /\ ~req[r].cacheHit
             /\ req[r].events = <<>>

\* a caller at its cap is answered 429 for an input that an earlier request of
\* the same caller was answered from the cache
C32_Witness ==
  \E r \in Slots :
    /\ Decided(r)
    /\ Cached(r)
    /\ req[r].dailyAtArrival < DAILY_API_LIMIT
    /\ YoungerThan(admitted[req[r].ip], req[r].now, RATE_LIMIT_WINDOW) = RATE_LIMIT_MAX
    /\ req[r].resp.status = 429
    /\ ~req[r].cacheHit
    /\ \E c \in Callers \ {req[r].ip} : admitted[c] # <<>>

\* the request of slot r is one the handler rejects before the admission
RejectedEarly(rec) ==
  /\ rec.route = "translate"
  /\ \/ ~rec.hasKey
     \/ TrimmedInputFor(rec.raw) = <<>>
     \/ Len(TrimmedInputFor(rec.raw)) > MaxInputLength

\* C33: a request without an API key, or whose normalized input is empty or longer
\* than MaxInputLength, is answered in the step that receives it, with 500, 400 or
\* 413; that step leaves the store's counter and timestamp lists, every process's
\* cached count and the response cache as they were, and the request has called no
\* model and neither read nor written its caller's record
C33_EarlyRejection ==
  /\ [](\A r \in Slots :
          RejectedEarly(req[r])
          => /\ req[r].pc = "done"
             /\ req[r].resp.status \in {500, 400, 413}
             /\ req[r].events = <<>>
             /\ ~req[r].readUser
             /\ ~req[r].wroteUser)
  /\ [][\A r \in Slots :
         RejectedEarly(req'[r]) /\ req'[r] # req[r]
         => UNCHANGED <<kvDaily, kvRate, cachedDailyUsage, cache, admitted>>]_vars

\* an empty input is answered 400 when earlier requests have left a timestamp, a
\* count and a cache entry
C33_Witness ==
  \E r \in Slots :
    /\ RejectedEarly(req[r])
    /\ req[r].hasKey
    /\ req[r].raw = BlankInput
    /\ req[r].resp.status = 400
    /\ cachedDailyUsage[req[r].proc].count > 0
    /\ \E c \in Callers : kvRate[c] # <<>>
    /\ \E k \in CacheKeys : cache[k].some

\* r is in the handler of /api/translate, received and not yet answered
Translating(rec) == rec.route = "translate" /\ rec.pc \notin {"idle", "done"}

\* C34: with requests one at a time, no step of a request that is not admitted
\* changes the store's timestamp lists, the store's counter, the count the process
\* holds for the current day or the response cache; and a request that was
\* denied has written no timestamp, has looked nothing up in the cache, has called
\* no model and is answered 429
C34_DenialChangesNothing ==
  /\ [](\A r \in Slots :
          req[r].denial # ""
          => /\ ~req[r].wroteUser
             /\ ~req[r].cacheHit
             /\ req[r].events = <<>>
             /\ req[r].pc \in {"denied", "usage_get", "usage_got", "done"}
             /\ req[r].pc = "done" => req[r].resp.status = 429)
  /\ [][\A r \in Slots :
         /\ Translating(req[r])
         /\ ~req'[r].wroteUser
         => /\ kvRate' = kvRate
            /\ kvDaily' = kvDaily
            /\ cache' = cache
            /\ \A day \in {ToDateString(clock')} :
                 DailyCount(req[r].proc, day)' = DailyCount(req[r].proc, day)]_vars

\* a request denied by the window test has been answered while the store holds
\* its caller's two timestamps and a count
C34_Witness ==
  \E r \in Slots :
    /\ Decided(r)
    /\ req[r].denial = "perUser"
    /\ req[r].resp.status = 429
    /\ Len(kvRate[req[r].ip]) = RATE_LIMIT_MAX
    /\ kvDaily.some

\* C35: with requests one at a time, a request answered 400 after its translation
\* failed was admitted: its time is the last of its caller's stored timestamps,
\* the process holds the count at its arrival plus one, and the cache holds no
\* entry for its key; and the step that answers it changes neither the store, nor
\* the count, nor the cache
C35_FailureKeepsQuota ==
  /\ [](\A r \in Slots :
          Decided(r) /\ req[r].resp.status = 400
          => /\ req[r].wroteUser
             /\ kvRate[req[r].ip] # <<>>
             /\ kvRate[req[r].ip][Len(kvRate[req[r].ip])] = req[r].now
             /\ cachedDailyUsage[req[r].proc].date = req[r].today
             /\ cachedDailyUsage[req[r].proc].count = req[r].dailyAtArrival + 1
             /\ ~Cached(r))
  /\ [][\A r \in Slots :
         /\ req[r].pc = "backup"
         /\ req'[r].pc = "done"
         /\ req'[r].resp.status = 400
         => UNCHANGED <<kvDaily, kvRate, cachedDailyUsage, cache, admitted>>]_vars

\* a request whose three model calls failed is answered 400 while the cache holds
\* an entry of another input
C35_Witness ==
  \E r \in Slots :
    /\ Decided(r)
    /\ req[r].resp.status = 400
    /\ Len(Calls(r)) = 3
    /\ kvDaily.some
    /\ kvDaily.count > 0
    /\ \E k \in CacheKeys : cache[k].some

\* ------------------------------------------------------------ claims: cache

\* C36: every entry of the cache, under the key of version and input n, holds the
\* input n, a cron text that validateApiResponse accepts and the identifier of the
\* primary or of the backup model; and a step that answers anything but 200
\* stores nothing
C36_CacheContent ==
  /\ [](\A k \in CacheKeys :
          cache[k].some
          => /\ k = <<CACHE_VERSION, cache[k].input>>
             /\ validateApiResponse(cache[k].cron).isValid
             /\ cache[k].model \in {PRIMARY_MODEL, BACKUP_MODEL})
  /\ [][\A r \in Slots :
         req'[r].pc = "done" /\ req[r].pc # "done" /\ req'[r].resp.status # 200
         => cache' = cache]_vars

\* the cache holds an entry from the backup whose cron is a content trimmed, and
\* the last request, of another input, had an output rejected and was answered 400
C36_Witness ==
  /\ \E k \in CacheKeys :
       /\ cache[k].some
       /\ cache[k].model = BACKUP_MODEL
       /\ cache[k].cron = Trim(PaddedContent)
  /\ \E r \in Slots :
       /\ Decided(r)
       /\ req[r].resp.status = 400
       /\ \E i \in 1..Len(req[r].events) :
            IsCall(req[r].events[i]) /\ ~req[r].events[i].thrown

\* ------------------------------------------------------------ claims: records

\* request r writes its caller's timestamp list in this step
WritesRecord(r) == req[r].pc = "rl_user_got" /\ req'[r].pc = "rl_update"

\* C37 as stated: under any interleaving, the list a request writes for its
\* caller holds at most RATE_LIMIT_MAX timestamps, every one of them less than
\* RATE_LIMIT_WINDOW before the moment of the write, and the request's own last
C37_RecordAtWrite ==
  [][\A r \in Slots :
       WritesRecord(r)
       => /\ Len(kvRate'[req[r].ip]) \in 1..RATE_LIMIT_MAX
          /\ kvRate'[req[r].ip][Len(kvRate'[req[r].ip])] = req[r].now
          /\ \A i \in 1..Len(kvRate'[req[r].ip]) :
               clock - kvRate'[req[r].ip][i] < RATE_LIMIT_WINDOW]_vars

\* C37, amended: under any interleaving, every stored list holds at most
\* RATE_LIMIT_MAX timestamps, and the list a request writes holds only timestamps
\* less than RATE_LIMIT_WINDOW before the request's own time, the value of
\* Date.now() at the start of its admission, which is the last of the list
C37_RecordAtArrival ==
  /\ [](\A c \in Callers : Len(kvRate[c]) <= RATE_LIMIT_MAX)
  /\ [][\A r \in Slots :
         WritesRecord(r)
         => /\ Len(kvRate'[req[r].ip]) \in 1..RATE_LIMIT_MAX
            /\ kvRate'[req[r].ip][Len(kvRate'[req[r].ip])] = req[r].now
            /\ \A i \in 1..Len(kvRate'[req[r].ip]) :
                 req[r].now - kvRate'[req[r].ip][i] < RATE_LIMIT_WINDOW]_vars

\* a request has written a list of two timestamps, the first of them one
\* millisecond less than a window before its own, after the clock has moved on
C37_Witness ==
  \E r \in Slots :
    /\ req[r].pc = "rl_update"
    /\ kvRate[req[r].ip] = <<req[r].now - (RATE_LIMIT_WINDOW - 1), req[r].now>>
    /\ clock > req[r].now

\* ------------------------------------------------------------ claims: normalization

\* the steps in the order the specification gives them: strip the control
\* characters, trim, lowercase, collapse the runs of white space, strip the
\* markup characters
StepsInOrder(raw) ==
  SelectSeq(CollapseSpace(ToLowerCase(Trim(sanitizeInput(raw)))), NotMarkup)

\* C38: the input a request is admitted with, which is the text of its cache key
\* and of its prompt, is what the five steps in the specified order make of the
\* body's input
C38_StepOrder ==
  \A r \in Slots :
    req[r].route = "translate" /\ req[r].ip # ""
    => req[r].input = StepsInOrder(req[r].raw)

\* ------------------------------------------------------------ claims: completion

\* history: the delays request r has started
Delays(r) == SelectSeq(req[r].events, IsDelay)

\* C39: when every operation a request awaits settles, a request that is received
\* is answered in the end; it is answered once, with 200, 400, 413, 429 or 500,
\* its answer does not change afterwards, and it has made at most three model calls
\* and at most one delay
C39_Completion ==
  /\ [](\A r \in Slots :
          /\ Len(Calls(r)) <= 3
          /\ Len(Delays(r)) <= 1
          /\ req[r].route = "translate" /\ req[r].pc = "done"
             => req[r].resp.status \in {200, 400, 413, 429, 500}
          /\ req[r].route = "translate" /\ req[r].pc # "done"
             => req[r].resp = NoResponse)
  /\ [][\A r \in Slots :
         req[r].pc = "done" /\ received' = received => req'[r] = req[r]]_vars
  /\ \A r \in Slots : InFlight(r) ~> req[r].pc = "done"

\* a request is answered after two calls to the primary, one delay and a call to
\* the backup
C39_Witness ==
  \E r \in Slots :
    /\ req[r].pc = "done"
    /\ req[r].route = "translate"
    /\ Len(Calls(r)) = 3
    /\ Len(Delays(r)) = 1
    /\ req[r].resp.status \in {200, 400}

\* ------------------------------------------------------------ claims: burst rule

\* C40: with requests one at a time, a request whose caller's stored list passes
\* the window test (fewer than RATE_LIMIT_MAX timestamps inside the window) passes
\* the burst test too (fewer than BURST_LIMIT inside the burst window), and no
\* request is denied by the burst test
C40_BurstNeverDecides ==
  \A r \in Slots :
    /\ req[r].denial # "burst"
    /\ req[r].pc = "rl_user_got"
         /\ YoungerThan(req[r].storedList, req[r].now, RATE_LIMIT_WINDOW) < RATE_LIMIT_MAX
       => YoungerThan(req[r].storedList, req[r].now, BURST_WINDOW_MS) < BURST_LIMIT
    /\ req[r].readUser /\ ~req[r].wroteUser => req[r].denial = "perUser"

\* a request was admitted although an admission of its caller was inside the
\* burst window, and the caller's next request is denied by the window test
C40_Witness ==
  \E r \in Slots :
    /\ Decided(r)
    /\ req[r].denial = "perUser"
    /\ YoungerThan(admitted[req[r].ip], req[r].now, BURST_WINDOW_MS) = BURST_LIMIT
    /\ admitted[req[r].ip][1] < admitted[req[r].ip][2]

====
